---- MODULE Spec2Model ----
(***************************************************************************)
(* Model of the alignment-and-labelling core of fan-timeline:              *)
(*   src/timeline/align_time.py  (clock mapper)                            *)
(*   src/timeline/windowing.py   (window builder)                          *)
(*   src/timeline/teacher.py     (sentiment aggregator, event summarizer)  *)
(* Python strings are TLA+ strings; the string methods the code uses       *)
(* (split, join, capitalize, lower, strip, in, f-string formatting) are    *)
(* operators that work character by character.                             *)
(***************************************************************************)
EXTENDS Integers, Sequences, FiniteSets, TLC

VARIABLES
    game_start_ts,   \* align_time: tip-off, UTC seconds
    comment_ts,      \* align_time: timestamp handed to the clock mapper
    clock,           \* align_time: value returned by utc_to_game_clock
    mapped,          \* align_time: value returned by map_real_to_game
    comments,        \* windowing: the comment list handed to build_windows
    pbp_events,      \* windowing: the event list handed to build_windows
    win_len,         \* windowing: window length in seconds
    win_id,          \* windowing: the index handed to create_window_summary
    windows,         \* windowing: the dict build_windows is filling / returned
    builds,          \* windowing: what each finished build_windows call returned
    win,             \* teacher: the window handed to the labelling functions
    summary,         \* teacher: write_event's local after summarize_window
    event,           \* teacher: value returned by write_event
    fan_sentiment,   \* teacher: value returned by trimmed_mean_sentiment
    timeline,        \* teacher: the "timeline" list label_window returns
    schedule,        \* run_pipeline: game_schedule.csv, game_id -> start_utc
    game_i,          \* run_all_games: games of mini_games gone through
    windows_dir,     \* data/windows: game_id -> lines of {game_id}.jsonl
    console,         \* what run_all_games and make_sft print about games
    sft_game_id,     \* make_sft: args.game_id
    game_files,      \* make_sft: list(windows_dir.glob("*.jsonl")), by stem
    sft_i,           \* make_sft: game files gone through
    all_pairs,       \* make_sft: all_pairs
    out,             \* make_sft: the file args.out
    sft_pc           \* make_sft: where main is

clock_vars == <<game_start_ts, comment_ts, clock, mapped>>
window_vars == <<comments, pbp_events, win_len, win_id, windows, builds>>
teacher_vars == <<win, summary, event, fan_sentiment, timeline>>
pipeline_vars == <<schedule, game_i>>
sft_vars == <<sft_game_id, game_files, sft_i, all_pairs, out, sft_pc>>
batch_vars == <<pipeline_vars, windows_dir, console, sft_vars>>
vars == <<clock_vars, window_vars, teacher_vars, batch_vars>>

(***************************************************************************)
(* Bounds of the model.                                                    *)
(***************************************************************************)
MaxDelta == 4400     \* largest comment_ts - game_start_ts explored
MaxPre == 61         \* largest game_start_ts - comment_ts explored
MaxComments == 3     \* longest comment list handed to build_windows
MaxEvents == 2       \* longest event list handed to build_windows
MaxBuilds == 2       \* build_windows calls made on the same inputs
MaxWinComments == 3  \* most comments in the window handed to label_window
MaxWinEvents == 2    \* most events in the window handed to label_window
MaxWinId == 75       \* largest window index handed to create_window_summary
MaxGames == 2        \* games run_all_games and make_sft go through
MaxGameComments == 2 \* most lines of a game's comments file
MaxGameEvents == 2   \* most lines of a game's play-by-play file
MaxPeriod == 12      \* largest period an event is given
MaxFailureEvents == 1  \* most events in a window of the analyzer-failure harness
MaxBusyComments == 24  \* most comments in the window of the busy-window harness
MaxShotEvents == 2     \* most events in the window of the shot harness
MaxQuoteComments == 3  \* most comments in the window of the quote harness

(***************************************************************************)
(* Python values.                                                          *)
(***************************************************************************)
None == "<None>"             \* Python's None where a str is expected
NotCalled == "<not called>"  \* a result slot no call has filled yet
Raised == "<raised>"         \* a call that ended in an exception

\* The parts of the state a harness does not use stay at these values.
ClockIdle ==
    /\ game_start_ts = 0 /\ comment_ts = 0
    /\ clock = NotCalled /\ mapped = NotCalled
WindowIdle ==
    /\ comments = << >> /\ pbp_events = << >> /\ win_len = 60
    /\ win_id = 0 /\ windows = << >> /\ builds = << >>
TeacherIdle ==
    /\ win = [comments |-> << >>, pbp |-> << >>]
    /\ summary = NotCalled /\ event = NotCalled /\ fan_sentiment = NotCalled
    /\ timeline = NotCalled

\* d.get(key, default)
Get(d, key, default) == IF key \in DOMAIN d THEN d[key] ELSE default

\* A file is [exists, lines].
NoFile == [exists |-> FALSE, lines |-> << >>]
File(lines) == [exists |-> TRUE, lines |-> lines]

BatchIdle ==
    /\ schedule = << >> /\ game_i = 0 /\ windows_dir = << >>
    /\ console = << >> /\ sft_game_id = None /\ game_files = << >>
    /\ sft_i = 0 /\ all_pairs = << >> /\ out = NoFile /\ sft_pc = "idle"

Max(a, b) == IF a >= b THEN a ELSE b
Min(a, b) == IF a <= b THEN a ELSE b

\* format(n, "02d"): decimal, zero-padded on the left to width 2
\* (a sign counts towards the width, so -1 stays "-1").
Fmt02d(n) == IF n >= 0 /\ n < 10 THEN "0" \o ToString(n) ELSE ToString(n)

\* d[key] = value on a dict: the key is added when it is not there.
SetKey(d, key, value) ==
    [k \in DOMAIN d \cup {key} |-> IF k = key THEN value ELSE d[k]]

(***************************************************************************)
(* Python str methods.                                                     *)
(***************************************************************************)
LowerCase == "abcdefghijklmnopqrstuvwxyz"
UpperCase == "ABCDEFGHIJKLMNOPQRSTUVWXYZ"
Digits == "0123456789"

CharAt(s, i) == SubSeq(s, i, i)

RECURSIVE IndexIn(_, _, _)
\* Position of the character c in the table at or after i, 0 when absent.
IndexIn(table, c, i) ==
    IF i > Len(table) THEN 0
    ELSE IF CharAt(table, i) = c THEN i
    ELSE IndexIn(table, c, i + 1)

\* str.isspace() of one character
IsSpace(c) == c = " " \/ c = "\t" \/ c = "\n" \/ c = "\r" \/ c = "\f"

\* The characters of a table, and the map from each character of one table
\* to the character at its position in another.
CharsOf(table) == {CharAt(table, i) : i \in 1..Len(table)}
CharMap(from, to) ==
    [c \in CharsOf(from) |-> CharAt(to, IndexIn(from, c, 1))]
LowerOf == CharMap(UpperCase, LowerCase)
UpperOf == CharMap(LowerCase, UpperCase)
WordChars == CharsOf(LowerCase \o UpperCase \o Digits \o "_")

\* c.lower(), c.upper() of one character
LowerChar(c) == IF c \in DOMAIN LowerOf THEN LowerOf[c] ELSE c
UpperChar(c) == IF c \in DOMAIN UpperOf THEN UpperOf[c] ELSE c

\* The operators over the characters lo..hi of a string halve the range,
\* which keeps the evaluation shallow on long strings.
RECURSIVE LowerRange(_, _, _)
LowerRange(s, lo, hi) ==
    IF lo > hi THEN ""
    ELSE IF lo = hi THEN LowerChar(CharAt(s, lo))
    ELSE LET mid == (lo + hi) \div 2
         IN  LowerRange(s, lo, mid) \o LowerRange(s, mid + 1, hi)

\* s.lower()
Lower(s) == LowerRange(s, 1, Len(s))

\* s.capitalize(): first character upper-cased, the rest lower-cased
Capitalize(s) ==
    IF s = "" THEN "" ELSE UpperChar(CharAt(s, 1)) \o LowerRange(s, 2, Len(s))

RECURSIVE SplitRange(_, _, _)
\* The maximal runs of non-whitespace characters within lo..hi.  A run
\* that crosses the middle is the last run of the left half and the first
\* of the right half, put together.
SplitRange(s, lo, hi) ==
    IF lo > hi THEN << >>
    ELSE IF lo = hi
         THEN IF IsSpace(CharAt(s, lo)) THEN << >> ELSE <<CharAt(s, lo)>>
    ELSE LET mid == (lo + hi) \div 2
             left == SplitRange(s, lo, mid)
             right == SplitRange(s, mid + 1, hi)
         IN  IF ~IsSpace(CharAt(s, mid)) /\ ~IsSpace(CharAt(s, mid + 1))
             THEN SubSeq(left, 1, Len(left) - 1)
                      \o <<left[Len(left)] \o right[1]>>
                      \o SubSeq(right, 2, Len(right))
             ELSE left \o right

\* s.split(): the maximal runs of non-whitespace characters
Split(s) == SplitRange(s, 1, Len(s))

RECURSIVE JoinFrom(_, _)
JoinFrom(words, i) ==
    IF i > Len(words) THEN ""
    ELSE IF i = Len(words) THEN words[i]
    ELSE words[i] \o " " \o JoinFrom(words, i + 1)

\* " ".join(words)
Join(words) == JoinFrom(words, 1)

\* words[:n]
Take(words, n) == SubSeq(words, 1, IF n < Len(words) THEN n ELSE Len(words))

RECURSIVE LStripFrom(_, _)
LStripFrom(s, i) ==
    IF i > Len(s) THEN ""
    ELSE IF IsSpace(CharAt(s, i)) THEN LStripFrom(s, i + 1)
    ELSE SubSeq(s, i, Len(s))
RECURSIVE RStripTo(_, _)
RStripTo(s, n) ==
    IF n = 0 THEN ""
    ELSE IF IsSpace(CharAt(s, n)) THEN RStripTo(s, n - 1)
    ELSE SubSeq(s, 1, n)

\* s.strip()
Strip(s) == LET l == LStripFrom(s, 1) IN RStripTo(l, Len(l))

\* (sub in s), sub not empty
Contains(sub, s) ==
    \E i \in 1..(Len(s) - Len(sub) + 1) : SubSeq(s, i, i + Len(sub) - 1) = sub

\* A character the pattern [^\w\s\-\'] does not match: a word character
\* (letter, digit, underscore), whitespace, hyphen or apostrophe.
KeptByQuoteRe(c) == c \in WordChars \/ IsSpace(c) \/ c = "-" \/ c = "'"

RECURSIVE CleanQuoteRange(_, _, _)
CleanQuoteRange(s, lo, hi) ==
    IF lo > hi THEN ""
    ELSE IF lo = hi
         THEN IF KeptByQuoteRe(CharAt(s, lo)) THEN CharAt(s, lo) ELSE ""
    ELSE LET mid == (lo + hi) \div 2
         IN  CleanQuoteRange(s, lo, mid) \o CleanQuoteRange(s, mid + 1, hi)

\* re.sub(r'[^\w\s\-\']', '', body)
CleanQuote(body) == CleanQuoteRange(body, 1, Len(body))

RECURSIVE SplitOnFrom(_, _, _, _)
\* The parts from position i on, start being where the current part began.
SplitOnFrom(s, sep, i, start) ==
    IF i > Len(s) THEN <<SubSeq(s, start, Len(s))>>
    ELSE IF CharAt(s, i) = sep
         THEN <<SubSeq(s, start, i - 1)>> \o SplitOnFrom(s, sep, i + 1, i + 1)
         ELSE SplitOnFrom(s, sep, i + 1, start)

\* s.split(sep), sep one character: empty parts are kept
SplitOn(s, sep) == SplitOnFrom(s, sep, 1, 1)

DigitOf ==
    [c \in CharsOf(Digits) |-> IndexIn(Digits, c, 1) - 1]

RECURSIVE DigitsValue(_, _)
\* The number the first n characters of a digit string denote, the
\* underscores between the digits passed over.
DigitsValue(s, n) ==
    IF n = 0 THEN 0
    ELSE IF CharAt(s, n) = "_" THEN DigitsValue(s, n - 1)
    ELSE DigitsValue(s, n - 1) * 10 + DigitOf[CharAt(s, n)]

\* What int() does with the text once surrounding whitespace is gone: an
\* optional sign, then digits, single underscores allowed between them.
IntSign(t) == IF t # "" /\ CharAt(t, 1) \in {"+", "-"} THEN CharAt(t, 1) ELSE ""
IntDigits(t) == IF IntSign(t) = "" THEN t ELSE SubSeq(t, 2, Len(t))

\* int(text) raises ValueError
int_raises(text) ==
    LET digits == IntDigits(Strip(text))
    IN  \/ digits = ""
        \/ \E i \in 1..Len(digits) :
               /\ CharAt(digits, i) \notin DOMAIN DigitOf
               /\ ~( /\ CharAt(digits, i) = "_" /\ 1 < i /\ i < Len(digits)
                     /\ CharAt(digits, i - 1) # "_" )

\* int(text)
int(text) ==
    LET t == Strip(text)
        value == DigitsValue(IntDigits(t), Len(IntDigits(t)))
    IN  IF IntSign(t) = "-" THEN -value ELSE value

(***************************************************************************)
(* utils.py                                                                *)
(***************************************************************************)
\* m, s = mmss.split(":") raises unless there are two parts, int() unless
\* each is a number.
mmss_raises(mmss) ==
    LET parts == SplitOn(mmss, ":")
    IN  Len(parts) # 2 \/ int_raises(parts[1]) \/ int_raises(parts[2])

mmss_to_secs(mmss) ==
    LET parts == SplitOn(mmss, ":")
    IN  int(parts[1]) * 60 + int(parts[2])

(***************************************************************************)
(* align_time.py                                                           *)
(***************************************************************************)
utc_to_game_clock_nominal(comment_ts_, game_start_ts_) ==
    LET delta == comment_ts_ - game_start_ts_
        period == (delta \div 720) + 1
        secs_into_q == delta % 720
        label == IF period > 4 THEN "OT" \o ToString(period - 4)
                 ELSE "Q" \o ToString(period)
        mm == (720 - secs_into_q) \div 60
        ss == (720 - secs_into_q) % 60
    IN  IF delta < 0 THEN None
        ELSE label \o " " \o Fmt02d(mm) \o ":" \o Fmt02d(ss)

utc_to_game_clock_minutes_only(comment_ts_, game_start_ts_) ==
    LET delta == comment_ts_ - game_start_ts_
        period == (delta \div 720) + 1
        secs_into_q == delta % 720
        label == IF period > 4 THEN "OT" \o ToString(period - 4)
                 ELSE "Q" \o ToString(period)
        mm == 11 - (secs_into_q \div 60)
    IN  IF delta < 0 THEN None
        ELSE label \o " " \o Fmt02d(mm) \o ":" \o Fmt02d(59)

utc_to_game_clock(comment_ts_, game_start_ts_) ==
    LET delta == comment_ts_ - game_start_ts_
        period == (delta \div 720) + 1          \* 12-min quarters
        secs_into_q == delta % 720
        label == IF period > 4 THEN "OT" \o ToString(period - 4)
                 ELSE "Q" \o ToString(period)
        mm == 11 - (secs_into_q \div 60)
        ss == 59 - (secs_into_q % 60)
    IN  IF delta < 0 THEN None               \* pre-game
        ELSE label \o " " \o Fmt02d(mm) \o ":" \o Fmt02d(ss)

\* TimeAlignConfig.q_seconds = 12 * 60
q_seconds == 720

\* The en dash (U+2013) of the real-time bin labels, as a character no
\* other label holds.
EnDash == "~"

\* f"{mm:02d}:00{EnDash}{mm:02d}:59"
RealBin(mm) == Fmt02d(mm) \o ":00" \o EnDash \o Fmt02d(mm) \o ":59"

map_real_to_game_unclamped(utc_ts, start_utc, q_seconds_) ==
    LET delta == utc_ts - start_utc
        q == delta \div q_seconds_
        remain == q_seconds_ - (delta % q_seconds_)
    IN  IF delta < 0 THEN <<"REAL", RealBin(delta \div 60)>>
        ELSE IF q > 5 THEN <<"REAL", RealBin(delta \div 60)>>
        ELSE <<"Q" \o (IF q < 4 THEN ToString(q + 1) ELSE "OT"),
               Fmt02d(remain \div 60) \o ":" \o Fmt02d(remain % 60)>>

map_real_to_game(utc_ts, start_utc, q_seconds_) ==
    LET delta == utc_ts - start_utc
        q == delta \div q_seconds_
        within == delta % q_seconds_
        remain == q_seconds_ - within     \* counting down
        m == remain \div 60
        s == remain % 60
    IN  IF delta < 0                      \* pregame chatter
        THEN <<"REAL", RealBin(Max(0, delta \div 60))>>
        ELSE IF q > 5                     \* postgame
        THEN <<"REAL", RealBin(delta \div 60)>>
        ELSE <<"Q" \o (IF q < 4 THEN ToString(Min(q + 1, 4)) ELSE "OT"),
               Fmt02d(m) \o ":" \o Fmt02d(s)>>

\* The loop body of add_elapsed_times; comment['elapsed'] is set in place.
comment_elapsed_unclamped(comment, game_start_utc) ==
    Get(comment, "created_utc", 0) - game_start_utc
comment_elapsed(comment, game_start_utc) ==
    LET comment_ts_ == Get(comment, "created_utc", 0)
        elapsed == comment_ts_ - game_start_utc
    IN  Max(0, elapsed)        \* Don't allow negative elapsed times

add_elapsed_times(comments_, game_start_utc) ==
    [i \in 1..Len(comments_) |->
        SetKey(SetKey(comments_[i], "elapsed",
                      comment_elapsed(comments_[i], game_start_utc)),
               "has_elapsed", TRUE)]

\* The loop body of add_elapsed_times_pbp.
pbp_elapsed_capped(event_) ==
    LET clock_secs == mmss_to_secs(Get(event_, "clock", "12:00"))
    IN  (Min(Get(event_, "period", 1), 5) - 1) * 720 + (720 - clock_secs)
pbp_elapsed(event_) ==
    LET period == Get(event_, "period", 1)
        clock_ == Get(event_, "clock", "12:00")
        clock_secs == mmss_to_secs(clock_)
        period_secs == (period - 1) * 720       \* 12 minutes per period
    IN  period_secs + (720 - clock_secs)

add_elapsed_times_pbp_raises(pbp_events_) ==
    \E i \in 1..Len(pbp_events_) :
        mmss_raises(Get(pbp_events_[i], "clock", "12:00"))

add_elapsed_times_pbp(pbp_events_, game_start_utc) ==
    [i \in 1..Len(pbp_events_) |->
        SetKey(SetKey(pbp_events_[i], "elapsed", pbp_elapsed(pbp_events_[i])),
               "has_elapsed", TRUE)]

(***************************************************************************)
(* windowing.py                                                            *)
(* A record is [id, has_elapsed, elapsed]: id is its position in the input *)
(* list, has_elapsed is ('elapsed' in record).  The dict windows is the    *)
(* sequence of its items [key, comments, pbp] in insertion order, which is *)
(* the order a Python dict keeps.                                          *)
(***************************************************************************)
RECURSIVE KeyIndexFrom(_, _, _)
KeyIndexFrom(ws, k, i) ==
    IF i > Len(ws) THEN 0
    ELSE IF ws[i].key = k THEN i
    ELSE KeyIndexFrom(ws, k, i + 1)

\* Position of key k in the dict, 0 when (k not in ws).
KeyIndex(ws, k) == KeyIndexFrom(ws, k, 1)

\* windows = {}
StaleWindows == windows
NewWindows == << >>

\* win = int(rec["elapsed"] // win_len)
WindowOfFixed60(rec, win_len_) == rec.elapsed \div 60
WindowOf(rec, win_len_) == rec.elapsed \div win_len_

\* Files a record that has no 'elapsed' under elapsed 0.
AddRecordUnguarded(ws, rec, field, win_len_) ==
    LET w == WindowOf(rec, win_len_)
        ws1 == IF KeyIndex(ws, w) = 0
               THEN Append(ws, [key |-> w, comments |-> << >>, pbp |-> << >>])
               ELSE ws
        i == KeyIndex(ws1, w)
    IN  IF field = "comments"
        THEN [ws1 EXCEPT ![i].comments = Append(@, rec)]
        ELSE [ws1 EXCEPT ![i].pbp = Append(@, rec)]

\* Puts the record at the front of its window's list.
AddRecordAtFront(ws, rec, field, win_len_) ==
    IF ~rec.has_elapsed THEN ws
    ELSE
        LET w == WindowOf(rec, win_len_)
            ws1 == IF KeyIndex(ws, w) = 0
                   THEN Append(ws, [key |-> w, comments |-> << >>, pbp |-> << >>])
                   ELSE ws
            i == KeyIndex(ws1, w)
        IN  IF field = "comments"
            THEN [ws1 EXCEPT ![i].comments = <<rec>> \o @]
            ELSE [ws1 EXCEPT ![i].pbp = <<rec>> \o @]

\* One iteration of either loop of build_windows; field is "comments" or
\* "pbp", the list the record is appended to.
AddRecord(ws, rec, field, win_len_) ==
    IF ~rec.has_elapsed THEN ws                         \* continue
    ELSE
        LET w == WindowOf(rec, win_len_)
            ws1 == IF KeyIndex(ws, w) = 0
                   THEN Append(ws, [key |-> w, comments |-> << >>, pbp |-> << >>])
                   ELSE ws
            i == KeyIndex(ws1, w)
        IN  IF field = "comments"
            THEN [ws1 EXCEPT ![i].comments = Append(@, rec)]
            ELSE [ws1 EXCEPT ![i].pbp = Append(@, rec)]

RECURSIVE AddAll(_, _, _, _, _)
AddAll(ws, recs, i, field, win_len_) ==
    IF i > Len(recs) THEN ws
    ELSE AddAll(AddRecord(ws, recs[i], field, win_len_), recs, i + 1, field, win_len_)

build_windows(comments_, pbp_events_, win_len_) ==
    LET after_comments == AddAll(NewWindows, comments_, 1, "comments", win_len_)
    IN  AddAll(after_comments, pbp_events_, 1, "pbp", win_len_)

create_window_summary_nominal(win_id_, window_data, win_len_) ==
    LET start_sec == win_id_ * win_len_
        period == (start_sec \div 720) + 1
        remain == 720 - (start_sec % 720)
        clock_start == Fmt02d(remain \div 60) \o ":" \o Fmt02d(remain % 60)
    IN  [win_id |-> win_id_, period |-> period, clock_start |-> clock_start,
         score_before |-> "0-0", score_after |-> "0-0",
         comments |-> Get(window_data, "comments", << >>),
         pbp |-> Get(window_data, "pbp", << >>)]

create_window_summary(win_id_, window_data, win_len_) ==
    LET comments_ == Get(window_data, "comments", << >>)
        pbp == Get(window_data, "pbp", << >>)
        start_sec == win_id_ * win_len_
        period == (start_sec \div 720) + 1
        secs_into_period == start_sec % 720
        clock_start == Fmt02d(11 - (secs_into_period \div 60)) \o ":"
                           \o Fmt02d(59 - (secs_into_period % 60))
        score_before == "0-0"      \* Placeholder
        score_after == "0-0"       \* Placeholder
    IN  [win_id |-> win_id_, period |-> period, clock_start |-> clock_start,
         score_before |-> score_before, score_after |-> score_after,
         comments |-> comments_, pbp |-> pbp]

RECURSIVE SortedFrom(_)
\* sorted(keys): the least key, then the rest sorted.
SortedFrom(keys) ==
    IF keys = {} THEN << >>
    ELSE LET least == CHOOSE k \in keys : \A other \in keys : k <= other
         IN  <<least>> \o SortedFrom(keys \ {least})

\* The lines save_windows_to_jsonl writes, each the dict json.dumps is
\* given.
save_windows_to_jsonl_unsorted(ws, win_len_) ==
    [j \in 1..Len(ws) |-> create_window_summary(ws[j].key, ws[j], win_len_)]
save_windows_to_jsonl(ws, win_len_) ==
    LET keys == SortedFrom({ws[j].key : j \in 1..Len(ws)})
    IN  [n \in 1..Len(keys) |->
            create_window_summary(keys[n], ws[KeyIndex(ws, keys[n])], win_len_)]

(***************************************************************************)
(* teacher.py                                                              *)
(* A comment is [body, score]; an event is [team, points, desc].  Polarity *)
(* scores are integers, the analyzer's compound score times 10^4 (VADER    *)
(* rounds compound to four decimals).                                      *)
(***************************************************************************)
\* What the analyzer answers for the comment bodies of this model: a body
\* of whitespace scores 0, the other values stand for VADER's.
BodyCompounds ==
    { [body |-> "lets go!!", compound |-> 5000],
      [body |-> "what a game", compound |-> 6000],
      [body |-> "aa bb cc dd ee ff gg hh", compound |-> 5500],
      [body |-> "   ", compound |-> 0],
      [body |-> "refs are awful", compound |-> -6000],
      [body |-> "this comment body is far longer than forty characters",
       compound |-> -2600],
      [body |-> "ok", compound |-> 2500],
      [body |-> "what a shot!!!!!!!!!!!!!!!!!!!!!!!!!!!!!!", compound |-> 0],
      [body |-> "!!!", compound |-> 0],
      [body |-> "aa bb cc dd ee ff gg hh ii", compound |-> 0] }

\* sia.polarity_scores(text)["compound"]: the lexicon's answer for the three
\* words trimmed_mean_sentiment passes (VADER rates "positive" 0.5574,
\* "negative" -0.5719 and does not list "neutral"), the table's for a body.
polarity_compound(text) ==
    CASE text = "positive" -> 5574
      [] text = "negative" -> -5719
      [] text = "neutral" -> 0
      [] OTHER -> (CHOOSE e \in BodyCompounds : e.body = text).compound

vader_label_echo(text) == text
vader_label(text) ==
    IF Strip(text) = "" THEN "mixed"
    ELSE LET score == polarity_compound(text)
         IN  IF score > 2500 THEN "pos"
             ELSE IF score < -2500 THEN "neg"
             ELSE "mixed"

Abs(x) == IF x < 0 THEN -x ELSE x

RECURSIVE SumSeq(_, _)
\* sum(seq[i:])
SumSeq(seq, i) == IF i > Len(seq) THEN 0 ELSE seq[i] + SumSeq(seq, i + 1)

\* The order of the two sorts of this file: key=abs ascending (the
\* sentiment scores), key=score descending (the comments to quote).
Precedes(order, x, y) ==
    IF order = "abs" THEN Abs(x) < Abs(y) ELSE x.score > y.score

RECURSIVE InsertBefore(_, _, _, _)
\* x put into the sorted list before the first element it Precedes, from
\* position i on: after every element it ties with (a stable sort).
InsertBefore(sorted, x, i, order) ==
    IF i > Len(sorted) THEN Append(sorted, x)
    ELSE IF Precedes(order, x, sorted[i])
         THEN SubSeq(sorted, 1, i - 1) \o <<x>> \o SubSeq(sorted, i, Len(sorted))
         ELSE InsertBefore(sorted, x, i + 1, order)

RECURSIVE StableSortFrom(_, _, _, _)
StableSortFrom(seq, i, sorted, order) ==
    IF i > Len(seq) THEN sorted
    ELSE StableSortFrom(seq, i + 1, InsertBefore(sorted, seq[i], 1, order), order)

\* sorted(seq, key=...): Python's sort is stable, also under reverse=True.
StableSort(seq, order) == StableSortFrom(seq, 1, << >>, order)

RECURSIVE BodyScoresFrom(_, _)
\* The compound scores of the comments whose body is not blank, in order.
BodyScoresFrom(comments_, i) ==
    IF i > Len(comments_) THEN << >>
    ELSE (IF Strip(comments_[i].body) # ""
          THEN <<polarity_compound(comments_[i].body)>> ELSE << >>)
             \o BodyScoresFrom(comments_, i + 1)

\* mean_score > 0.25, mean_score < -0.25 decided on the sum: the mean is
\* SumSeq(trimmed) / Len(trimmed).
MeanWordOverAll(trimmed, n) ==
    IF SumSeq(trimmed, 1) > 2500 * n THEN "positive"
    ELSE IF SumSeq(trimmed, 1) < -2500 * n THEN "negative"
    ELSE "neutral"
MeanWord(trimmed, n) ==
    IF SumSeq(trimmed, 1) > 2500 * Len(trimmed) THEN "positive"
    ELSE IF SumSeq(trimmed, 1) < -2500 * Len(trimmed) THEN "negative"
    ELSE "neutral"

\* Trims one score from each end however many there are.
trimmed_mean_sentiment_trim_one(comments_) ==
    IF comments_ = << >> THEN "mixed"
    ELSE
        LET scores == BodyScoresFrom(comments_, 1)
            sentiments == StableSort(scores, "abs")
            n == Len(sentiments)
            trimmed == IF n > 2 THEN SubSeq(sentiments, 2, n - 1)
                       ELSE sentiments
        IN  IF scores = << >> THEN "mixed"
            ELSE vader_label(MeanWord(trimmed, n))

trimmed_mean_sentiment(comments_) ==
    IF comments_ = << >> THEN "mixed"
    ELSE
        LET scores == BodyScoresFrom(comments_, 1)
            sentiments == StableSort(scores, "abs")
            n == Len(sentiments)
            trim_count == Max(1, n \div 10)        \* int(n * 0.1)
            trimmed == IF n > 2 * trim_count
                       THEN SubSeq(sentiments, trim_count + 1, n - trim_count)
                       ELSE sentiments
        IN  IF scores = << >> THEN "mixed"
            ELSE IF Len(trimmed) = 0 THEN vader_label("dummy")
            ELSE vader_label(MeanWord(trimmed, n))

\* Optional[Tuple]: None is the empty tuple, which is falsy like None.
NoneTuple == << >>

RECURSIVE ScoringTeamsFrom(_, _, _)
\* The keys of team_scores in insertion order: the teams of the events with
\* a team and points > 0, each at its first such event.
ScoringTeamsFrom(pbp, i, teams) ==
    IF i > Len(pbp) THEN teams
    ELSE LET e == pbp[i]
             known == \E j \in 1..Len(teams) : teams[j] = e.team
         IN  ScoringTeamsFrom(pbp, i + 1,
                 IF e.team # "" /\ e.points > 0 /\ ~known
                 THEN Append(teams, e.team) ELSE teams)

RECURSIVE TeamPointsFrom(_, _, _)
\* sum(team_scores[team])
TeamPointsFrom(pbp, team, i) ==
    IF i > Len(pbp) THEN 0
    ELSE (IF pbp[i].team = team /\ pbp[i].points > 0 THEN pbp[i].points ELSE 0)
             + TeamPointsFrom(pbp, team, i + 1)

RECURSIVE FirstRunOver8From(_, _, _)
FirstRunOver8From(pbp, teams, i) ==
    IF i > Len(teams) THEN NoneTuple
    ELSE IF TeamPointsFrom(pbp, teams[i], 1) > 8
         THEN <<teams[i], TeamPointsFrom(pbp, teams[i], 1), "star">>
         ELSE FirstRunOver8From(pbp, teams, i + 1)

RECURSIVE FirstRunFrom(_, _, _)
\* The first team of team_scores whose points sum to 8 or more.
FirstRunFrom(pbp, teams, i) ==
    IF i > Len(teams) THEN NoneTuple
    ELSE IF TeamPointsFrom(pbp, teams[i], 1) >= 8
         THEN <<teams[i], TeamPointsFrom(pbp, teams[i], 1), "star">>
         ELSE FirstRunFrom(pbp, teams, i + 1)

is_run(pbp) ==
    IF Len(pbp) < 2 THEN NoneTuple
    ELSE FirstRunFrom(pbp, ScoringTeamsFrom(pbp, 1, << >>), 1)

\* Looks for the shot types in the reverse order.
ShotTypeLayupFirst(desc) ==
    IF Contains("Layup", desc) THEN "layup"
    ELSE IF Contains("Dunk", desc) THEN "dunk"
    ELSE IF Contains("Free Throw", desc) THEN "free throw"
    ELSE IF Contains("3PT", desc) THEN "three-pointer"
    ELSE "shot"
ShotType(desc) ==
    IF Contains("3PT", desc) THEN "three-pointer"
    ELSE IF Contains("Free Throw", desc) THEN "free throw"
    ELSE IF Contains("Dunk", desc) THEN "dunk"
    ELSE IF Contains("Layup", desc) THEN "layup"
    ELSE "shot"

RECURSIVE LeadChangeFrom(_, _)
LeadChangeFrom(pbp, i) ==
    IF i > Len(pbp) THEN NoneTuple
    ELSE IF pbp[i].points > 0
         THEN <<pbp[i].team, "player", ShotType(pbp[i].desc)>>
         ELSE LeadChangeFrom(pbp, i + 1)

is_lead_change(pbp) ==
    IF Len(pbp) < 1 THEN NoneTuple ELSE LeadChangeFrom(pbp, 1)

highlight_keywords ==
    <<"block", "dunk", "steal", "alley-oop", "behind-the-back", "no-look">>

RECURSIVE KeywordFrom(_, _)
\* The first keyword, from position k on, that the lower-cased desc holds.
KeywordFrom(desc, k) ==
    IF k > Len(highlight_keywords) THEN ""
    ELSE IF Contains(highlight_keywords[k], desc) THEN highlight_keywords[k]
    ELSE KeywordFrom(desc, k + 1)

RECURSIVE HighlightFrom(_, _)
HighlightFrom(pbp, i) ==
    IF i > Len(pbp) THEN NoneTuple
    ELSE LET keyword == KeywordFrom(Lower(pbp[i].desc), 1)
         IN  IF keyword # "" THEN <<"player", keyword>>
             ELSE HighlightFrom(pbp, i + 1)

is_highlight_play(pbp) == HighlightFrom(pbp, 1)

\* Falls back on the first event's description.
LastEventFallbackOfFirst(pbp) ==
    LET desc == IF pbp # << >> THEN pbp[1].desc ELSE ""
        capitalized == Capitalize(desc)
        words == Split(capitalized)
    IN  IF pbp # << >> /\ desc # ""
        THEN IF Len(words) > 20
             THEN Join(Take(words, 20)) \o "..."
             ELSE capitalized
        ELSE "Game action continues."

\* The fallback of summarize_window: the last event's description, or the
\* default.
LastEventFallback(pbp) ==
    LET desc == IF pbp # << >> THEN pbp[Len(pbp)].desc ELSE ""
        capitalized == Capitalize(desc)
        words == Split(capitalized)
    IN  IF pbp # << >> /\ desc # ""
        THEN IF Len(words) > 20
             THEN Join(Take(words, 20)) \o "..."
             ELSE capitalized
        ELSE "Game action continues."

RunSummary(run_info) ==
    run_info[1] \o " " \o ToString(run_info[2]) \o "-0 run as " \o run_info[3]
        \o " scores " \o ToString(run_info[2]) \o " straight."
LeadSummary(lead_info) ==
    lead_info[1] \o " retake the lead on " \o lead_info[2] \o " "
        \o lead_info[3] \o "."
HighlightSummary(highlight_info) ==
    highlight_info[1] \o " emphatic " \o highlight_info[2] \o " fires up fans."

summarize_window_highlight_first(pbp, comments_) ==
    LET run_info == is_run(pbp)
        lead_info == is_lead_change(pbp)
        highlight_info == is_highlight_play(pbp)
    IN  IF highlight_info # NoneTuple THEN HighlightSummary(highlight_info)
        ELSE IF run_info # NoneTuple THEN RunSummary(run_info)
        ELSE IF lead_info # NoneTuple THEN LeadSummary(lead_info)
        ELSE LastEventFallback(pbp)

summarize_window_unguarded_desc(pbp, comments_) ==
    LET run_info == is_run(pbp)
        lead_info == is_lead_change(pbp)
        highlight_info == is_highlight_play(pbp)
    IN  IF run_info # NoneTuple THEN RunSummary(run_info)
        ELSE IF lead_info # NoneTuple THEN LeadSummary(lead_info)
        ELSE IF highlight_info # NoneTuple THEN HighlightSummary(highlight_info)
        ELSE IF pbp # << >> THEN Capitalize(pbp[Len(pbp)].desc)
        ELSE "Game action continues."

summarize_window(pbp, comments_) ==
    LET run_info == is_run(pbp)
        lead_info == is_lead_change(pbp)
        highlight_info == is_highlight_play(pbp)
    IN  IF run_info # NoneTuple THEN RunSummary(run_info)
        ELSE IF lead_info # NoneTuple THEN LeadSummary(lead_info)
        ELSE IF highlight_info # NoneTuple THEN HighlightSummary(highlight_info)
        ELSE LastEventFallback(pbp)

RECURSIVE AddQuotesFrom(_, _, _, _, _)
\* The loop of add_fan_quotes over scored_comments from position i on.
AddQuotesFrom(summary_, scored, i, quotes_added, max_quotes) ==
    IF i > Len(scored) \/ quotes_added >= max_quotes THEN summary_
    ELSE
        LET body == scored[i].body
            clean_quote == CleanQuote(body)
        IN  IF /\ body # "" /\ Len(body) <= 40
               /\ clean_quote # "" /\ Len(Split(clean_quote)) <= 8
            THEN AddQuotesFrom(summary_ \o " \"" \o clean_quote \o "\"",
                               scored, i + 1, quotes_added + 1, max_quotes)
            ELSE AddQuotesFrom(summary_, scored, i + 1, quotes_added, max_quotes)

add_fan_quotes(summary_, comments_, max_quotes) ==
    IF comments_ = << >> THEN summary_
    ELSE LET scored_comments == StableSort(comments_, "score desc")
         IN  AddQuotesFrom(summary_, scored_comments, 1, 0, max_quotes)

write_event_untruncated(pbp, comments_) ==
    add_fan_quotes(summarize_window(pbp, comments_), comments_, 2)

write_event(pbp, comments_) ==
    LET summary_ == summarize_window(pbp, comments_)
        summary_with_quotes == add_fan_quotes(summary_, comments_, 2)
        words == Split(summary_with_quotes)
    IN  IF Len(words) > 28 THEN Join(Take(words, 28)) \o "..."
        ELSE summary_with_quotes

\* The bodies on which sia.polarity_scores raises: the analyzer is
\* third-party code and the callers do not guard its call.
FailingBodies == {"the analyzer fails on this"}
polarity_raises(text) == text \in FailingBodies

\* trimmed_mean_sentiment has no try around the analyzer's call, nor has
\* label_window around trimmed_mean_sentiment.
trimmed_mean_sentiment_raises(comments_) ==
    \E i \in 1..Len(comments_) :
        Strip(comments_[i].body) # "" /\ polarity_raises(comments_[i].body)
label_window_raises(win_) == trimmed_mean_sentiment_raises(win_.comments)

\* Labels every overtime period "OT", without its number.
label_window_plain_overtime(win_) ==
    LET comments_ == Get(win_, "comments", << >>)
        pbp == Get(win_, "pbp", << >>)
        period == Get(win_, "period", 1)
        clock_start == Get(win_, "clock_start", "00:00")
        period_label == IF period > 4 THEN "OT" ELSE "Q" \o ToString(period)
    IN  << [ts |-> period_label \o " " \o clock_start,
            event |-> write_event(pbp, comments_),
            fan_sentiment |-> trimmed_mean_sentiment(comments_)] >>

\* The list under "timeline" of the dict label_window returns.
label_window(win_) ==
    LET comments_ == Get(win_, "comments", << >>)
        pbp == Get(win_, "pbp", << >>)
        period == Get(win_, "period", 1)
        clock_start == Get(win_, "clock_start", "00:00")
        period_label == IF period > 4 THEN "OT" \o ToString(period - 4)
                        ELSE "Q" \o ToString(period)
    IN  << [ts |-> period_label \o " " \o clock_start,
            event |-> write_event(pbp, comments_),
            fan_sentiment |-> trimmed_mean_sentiment(comments_)] >>

(***************************************************************************)
(* run_pipeline.py, run_all_games.py                                       *)
(* A file is [exists, lines]; a line is text that holds a JSON value,      *)
(* text json.loads raises on, or blank.                                    *)
(***************************************************************************)
JsonLine(value) == [kind |-> "json", value |-> value]
MalformedLine == [kind |-> "malformed"]
BlankLine == [kind |-> "blank"]
JsonLines(values) == [n \in 1..Len(values) |-> JsonLine(values[n])]

\* The lines with line.strip() true.
NonBlank(lines) == LET kept(l) == l.kind # "blank" IN SelectSeq(lines, kept)

\* for line in f: if line.strip(): records.append(json.loads(line))
load_jsonl_raises(lines) ==
    \E i \in 1..Len(lines) : lines[i].kind = "malformed"
load_jsonl(lines) ==
    LET kept == NonBlank(lines) IN [i \in 1..Len(kept) |-> kept[i].value]

\* What a call of run_pipeline_for_game did.
PipelineOutcome(raised, printed, written, lines) ==
    [raised |-> raised, printed |-> printed, written |-> written,
     lines |-> lines]

\* schedule_ is game_schedule.csv as load_game_schedule reads it, a dict
\* game_id -> start_utc, or NoFile when open() raises.
run_pipeline_for_game(game_id, schedule_, comments_file, pbp_file) ==
    LET game_start_utc == Get(schedule_, game_id, None)
        \* not game_start_utc: None, or a start of 0
        no_start == game_id \notin DOMAIN schedule_ \/ schedule_[game_id] = 0
        comments_ == add_elapsed_times(load_jsonl(comments_file.lines),
                                       game_start_utc)
        loaded_events == load_jsonl(pbp_file.lines)
        events == add_elapsed_times_pbp(loaded_events, game_start_utc)
        built == build_windows(comments_, events, 60)
        lines == JsonLines(save_windows_to_jsonl(built, 60))
    IN  IF schedule_ = NoFile
        THEN PipelineOutcome(TRUE, <<"FileNotFoundError">>, FALSE, << >>)
        ELSE IF no_start
        THEN PipelineOutcome(FALSE,
                 <<"Error: No start time found for game " \o game_id>>,
                 FALSE, << >>)
        ELSE IF ~comments_file.exists
        THEN PipelineOutcome(FALSE,
                 <<"Error: Comments file not found: data/reddit/" \o game_id
                       \o ".jsonl">>, FALSE, << >>)
        ELSE IF load_jsonl_raises(comments_file.lines)
        THEN PipelineOutcome(TRUE, <<"JSONDecodeError">>, FALSE, << >>)
        ELSE IF ~pbp_file.exists
        THEN PipelineOutcome(FALSE,
                 <<"Error: PBP file not found: data/pbp/" \o game_id
                       \o ".jsonl">>, FALSE, << >>)
        ELSE IF load_jsonl_raises(pbp_file.lines)
        THEN PipelineOutcome(TRUE, <<"JSONDecodeError">>, FALSE, << >>)
        ELSE IF add_elapsed_times_pbp_raises(loaded_events)
        THEN PipelineOutcome(TRUE, <<"ValueError">>, FALSE, << >>)
        ELSE PipelineOutcome(FALSE, << >>, TRUE, lines)

\* run_all_games.main: the games it goes through.
mini_games ==
    <<"2019-12-01-LAL-DAL", "2020-01-16-BOS-MIL", "2021-05-19-GSW-LAL",
      "2022-12-25-MEM-GSW", "2023-06-01-MIA-DEN">>

(***************************************************************************)
(* make_sft.py                                                             *)
(* A pair is the dict create_sft_pairs appends; its "output" is the JSON   *)
(* text json.dumps makes of label_window's dict, kept as a line is.        *)
(***************************************************************************)
Bullet == "*"       \* stands for U+2022, the bullet of the prompt

Instruction ==
    "You are a sports timeline generator. Given fan comments from a game thread, create a concise event summary with sentiment."

RECURSIVE JoinWithFrom(_, _, _)
\* sep.join(items[i-1:])
JoinWithFrom(sep, items, i) ==
    IF i > Len(items) THEN ""
    ELSE IF i = Len(items) THEN items[i]
    ELSE items[i] \o sep \o JoinWithFrom(sep, items, i + 1)

\* The orders random.shuffle can leave a list in.
Shuffles(seq) ==
    LET n == Len(seq)
        orders == {p \in [1..n -> 1..n] : \A i, j \in 1..n : p[i] = p[j] => i = j}
    IN  {[i \in 1..n |-> seq[p[i]]] : p \in orders}

\* The f-string of the prompt.
sft_prompt(window, game_id, top_comments) ==
    LET comment_text == JoinWithFrom("\n" \o Bullet \o " ", top_comments, 1)
        score_before == Get(window, "score_before", "0-0")
        score_after == Get(window, "score_after", "0-0")
    IN  "[CONTEXT]\ngame_id=" \o game_id
            \o "\nquarter=Q" \o ToString(window.period)
            \o " window=" \o window.clock_start
            \o " score_before=" \o score_before
            \o " score_after=" \o score_after
            \o "\n\n[COMMENTS]\n" \o Bullet \o " " \o comment_text

\* window['period'], window['clock_start'] of the prompt: a KeyError, and
\* no try is around it.
sft_prompt_raises(window) ==
    /\ Get(window, "comments", << >>) # << >>
    /\ \/ "period" \notin DOMAIN window
       \/ "clock_start" \notin DOMAIN window

\* The message the except of create_sft_pairs prints.
WindowError == "Error processing window: analyzer error"

\* One iteration of the loop of create_sft_pairs: the pairs it appends,
\* none or one, for each order random.shuffle can give.
sft_pairs_of_window(window, game_id) ==
    LET comments_ == Get(window, "comments", << >>)
        scored_comments == StableSort(comments_, "score desc")
        bodies == [i \in 1..Len(scored_comments) |->
                      Get(scored_comments[i], "body", "")]
        top_comments == Take(bodies, 3)
        remaining == SubSeq(bodies, 4, Len(bodies))
    IN  IF comments_ = << >> THEN {<< >>}                  \* continue
        ELSE IF label_window_raises(window) THEN {<< >>}   \* print, continue
        ELSE { << [instruction |-> Instruction,
                   input |-> sft_prompt(window, game_id,
                                        top_comments \o Take(shuffled, 7)),
                   output |-> JsonLine([timeline |-> label_window(window)]),
                   history |-> << >>] >> :
                 shuffled \in Shuffles(remaining) }

RECURSIVE CreateSftPairsFrom(_, _, _)
CreateSftPairsFrom(windows_, i, game_id) ==
    IF i > Len(windows_) THEN {<< >>}
    ELSE { first \o rest :
             first \in sft_pairs_of_window(windows_[i], game_id),
             rest \in CreateSftPairsFrom(windows_, i + 1, game_id) }

\* The lists create_sft_pairs can return, one for each way the shuffles
\* can fall.
create_sft_pairs(windows_, game_id) == CreateSftPairsFrom(windows_, 1, game_id)

create_sft_pairs_raises(windows_) ==
    \E i \in 1..Len(windows_) : sft_prompt_raises(windows_[i])

\* What create_sft_pairs prints: one line for each window label_window
\* raised on.
create_sft_pairs_prints(windows_) ==
    LET failed(w) == Get(w, "comments", << >>) # << >> /\ label_window_raises(w)
        printed(w) == WindowError
        failures == SelectSeq(windows_, failed)
    IN  [i \in 1..Len(failures) |-> printed(failures[i])]

\* The path of a game's file in the windows directory.
GameFile(game_id) == "data/windows/" \o game_id \o ".jsonl"

\* What process_game_file prints before and after create_sft_pairs.
process_game_file_prints(game_id, windows_, pairs) ==
    <<"Processing " \o GameFile(game_id),
      "Loaded " \o ToString(Len(windows_)) \o " windows">>
        \o create_sft_pairs_prints(windows_)
        \o <<"Generated " \o ToString(Len(pairs)) \o " SFT pairs">>

\* A directory that is not there.
NoDir == [exists |-> FALSE]
DirExists(dir) == "exists" \notin DOMAIN dir

\* list(windows_dir.glob("*.jsonl")), by stem: the files in any order.
Glob(dir) ==
    LET stems == DOMAIN dir
        n == Cardinality(stems)
    IN  {p \in [1..n -> stems] : \A i, j \in 1..n : p[i] = p[j] => i = j}

(***************************************************************************)
(* Clock harness: one timestamp is handed to the clock mapper.             *)
(***************************************************************************)
GameStarts == {0, 1000}

InitClock ==
    /\ game_start_ts \in GameStarts
    /\ comment_ts \in (game_start_ts - MaxPre)..(game_start_ts + MaxDelta)
    /\ clock = NotCalled
    /\ mapped = NotCalled
    /\ WindowIdle /\ TeacherIdle /\ BatchIdle

CallUtcToGameClock ==
    /\ clock = NotCalled
    /\ clock' = utc_to_game_clock(comment_ts, game_start_ts)
    /\ UNCHANGED <<game_start_ts, comment_ts, mapped, window_vars, teacher_vars,
                   batch_vars>>

\* map_real_to_game(comment_ts, TimeAlignConfig(start_utc=game_start_ts))
CallMapRealToGame ==
    /\ mapped = NotCalled
    /\ mapped' = map_real_to_game(comment_ts, game_start_ts, q_seconds)
    /\ UNCHANGED <<game_start_ts, comment_ts, clock, window_vars, teacher_vars,
                   batch_vars>>

NextClock == CallUtcToGameClock \/ CallMapRealToGame

SpecClock == InitClock /\ [][NextClock]_vars

(***************************************************************************)
(* Window harness: build_windows is called, MaxBuilds times, on one pair   *)
(* of input lists.                                                         *)
(***************************************************************************)
\* 'elapsed' of a record: absent, or one of these seconds.
ElapsedValues == {5, 60, 65, 125}
WinLens == {30, 60}

RecordChoices ==
    {[has_elapsed |-> TRUE, elapsed |-> e] : e \in ElapsedValues}
        \cup {[has_elapsed |-> FALSE, elapsed |-> 0]}

\* The lists of at most n records, each record tagged with its position.
RecordLists(n) ==
    UNION {{[i \in 1..k |-> [id |-> i, has_elapsed |-> f[i].has_elapsed,
                              elapsed |-> f[i].elapsed]] :
                f \in [1..k -> RecordChoices]} : k \in 0..n}

InitWindows ==
    /\ comments \in RecordLists(MaxComments)
    /\ pbp_events \in RecordLists(MaxEvents)
    /\ win_len \in WinLens
    /\ win_id = 0
    /\ windows = << >>
    /\ builds = << >>
    /\ ClockIdle /\ TeacherIdle /\ BatchIdle

CallBuildWindows ==
    /\ Len(builds) < MaxBuilds
    /\ windows' = build_windows(comments, pbp_events, win_len)
    /\ builds' = Append(builds, windows')
    /\ UNCHANGED <<comments, pbp_events, win_len, win_id, clock_vars,
                   teacher_vars, batch_vars>>

NextWindows == CallBuildWindows

SpecWindows == InitWindows /\ [][NextWindows]_vars

(***************************************************************************)
(* Teacher harness: label_window is handed one window.                     *)
(***************************************************************************)
LongDesc ==
    "jump ball won by the home side and then a long pass up the court to the man in the far corner who misses"

CommentPool ==
    { [body |-> "lets go!!", score |-> 10],
      [body |-> "what a game", score |-> 5],
      [body |-> "aa bb cc dd ee ff gg hh", score |-> 7],
      [body |-> "   ", score |-> 9],
      [body |-> "refs are awful", score |-> 3],
      [body |-> "this comment body is far longer than forty characters",
       score |-> 20],
      [body |-> "ok", score |-> 0] }

EventPool ==
    { [team |-> "TeamA", points |-> 5, desc |-> "Made 3PT jumper"],
      [team |-> "TeamA", points |-> 3, desc |-> "Alley-oop Dunk Made"],
      [team |-> "TeamA", points |-> 9, desc |-> "Steal and score"],
      [team |-> "TeamB", points |-> 8, desc |-> "Layup Made"],
      [team |-> "TeamB", points |-> 0, desc |-> "Big block on the drive"],
      [team |-> "", points |-> 9, desc |-> "Free Throw Made"],
      [team |-> "TeamA", points |-> 0, desc |-> ""],
      [team |-> "TeamB", points |-> 0, desc |-> LongDesc],
      [team |-> "TeamA", points |-> 0, desc |-> "missed jumper"],
      [team |-> "TeamB", points |-> 0, desc |-> "  "] }

SeqsUpTo(S, n) == UNION {[1..k -> S] : k \in 0..n}

InitTeacher ==
    /\ win \in [comments : SeqsUpTo(CommentPool, MaxWinComments),
                pbp : SeqsUpTo(EventPool, MaxWinEvents)]
    /\ summary = NotCalled /\ event = NotCalled /\ fan_sentiment = NotCalled
    /\ timeline = NotCalled
    /\ ClockIdle /\ WindowIdle /\ BatchIdle

\* label_window(win).  An exception of the analyzer leaves
\* trimmed_mean_sentiment and label_window at once: write_event is not
\* reached.
LabelWindow ==
    /\ event = NotCalled
    /\ IF label_window_raises(win)
       THEN /\ fan_sentiment' = Raised
            /\ event' = Raised
            /\ timeline' = Raised
            /\ UNCHANGED summary
       ELSE /\ timeline' = label_window(win)
            /\ fan_sentiment' = timeline'[1].fan_sentiment
            /\ event' = timeline'[1].event
            /\ summary' = summarize_window(win.pbp, win.comments)
    /\ UNCHANGED <<win, clock_vars, window_vars, batch_vars>>

NextTeacher == LabelWindow

SpecTeacher == InitTeacher /\ [][NextTeacher]_vars

(***************************************************************************)
(* Summary harness: one window of the dict is summarised, as               *)
(* save_windows_to_jsonl does for every key, and the summary is labelled.  *)
(***************************************************************************)
SummaryWinLens == {30, 45, 60}

SummaryWindowData ==
    { [comments |-> <<[body |-> "what a game", score |-> 5]>>, pbp |-> << >>],
      [comments |-> << >>,
       pbp |-> <<[team |-> "TeamA", points |-> 3, desc |-> "Made 3PT jumper"]>>] }

InitSummary ==
    /\ win_id \in 0..MaxWinId
    /\ win_len \in SummaryWinLens
    /\ win \in SummaryWindowData
    /\ comments = << >> /\ pbp_events = << >>
    /\ windows = << >> /\ builds = << >>
    /\ summary = NotCalled /\ event = NotCalled /\ fan_sentiment = NotCalled
    /\ timeline = NotCalled
    /\ ClockIdle /\ BatchIdle

CallCreateWindowSummary ==
    /\ event = NotCalled
    /\ "period" \notin DOMAIN win
    /\ win' = create_window_summary(win_id, win, win_len)
    /\ UNCHANGED <<summary, event, fan_sentiment, timeline, clock_vars,
                   window_vars, batch_vars>>

NextSummary == CallCreateWindowSummary \/ LabelWindow

SpecSummary == InitSummary /\ [][NextSummary]_vars

(***************************************************************************)
(* Pipeline harness: run_all_games.main goes through the first MaxGames    *)
(* games of mini_games; each game's two input files are what the           *)
(* iteration finds on disk.                                                *)
(***************************************************************************)
GameStart == 1000

\* The lines of a comments file and of a play-by-play file.
CommentLines ==
    { JsonLine([created_utc |-> GameStart - 30, body |-> "lets go!!",
                score |-> 10]),
      JsonLine([created_utc |-> GameStart + 5, body |-> "refs are awful",
                score |-> 3]),
      JsonLine([created_utc |-> GameStart + 65, body |-> "what a game",
                score |-> 5]),
      MalformedLine }
EventLines ==
    { JsonLine([period |-> 1, clock |-> "12:00", team |-> "TeamA",
                points |-> 2, desc |-> "Layup Made"]),
      JsonLine([period |-> 1, clock |-> "10:55", team |-> "TeamB",
                points |-> 3, desc |-> "Made 3PT jumper"]),
      JsonLine([period |-> 6, clock |-> "10:55", team |-> "TeamA",
                points |-> 2, desc |-> "Alley-oop Dunk Made"]),
      JsonLine([period |-> 3, clock |-> "00:00", team |-> "TeamB",
                points |-> 2, desc |-> "Jumper at the buzzer"]),
      JsonLine([period |-> 2, clock |-> "1130", team |-> "TeamB",
                points |-> 1, desc |-> "Free Throw Made"]),
      MalformedLine }

CommentFiles ==
    {NoFile} \cup {File(lines) : lines \in SeqsUpTo(CommentLines, MaxGameComments)}
PbpFiles ==
    {NoFile} \cup {File(lines) : lines \in SeqsUpTo(EventLines, MaxGameEvents)}

\* game_schedule.csv: missing, or with a start time for some of the games.
Schedules ==
    {NoFile} \cup
    UNION {[games -> {GameStart}] :
               games \in SUBSET {mini_games[i] : i \in 1..MaxGames}}

InitPipeline ==
    /\ schedule \in Schedules
    /\ game_i = 0
    /\ windows_dir = << >>
    /\ console = << >>
    /\ sft_game_id = None /\ game_files = << >> /\ sft_i = 0
    /\ all_pairs = << >> /\ out = NoFile /\ sft_pc = "idle"
    /\ ClockIdle /\ WindowIdle /\ TeacherIdle

\* One iteration of run_all_games.main's loop: run_pipeline_for_game in
\* its try, one of the two prints after it (without their emoji).
RunPipelineForGame ==
    /\ game_i < MaxGames
    /\ \E comments_file \in CommentFiles, pbp_file \in PbpFiles :
           LET game_id == mini_games[game_i + 1]
               done == run_pipeline_for_game(game_id, schedule, comments_file,
                                             pbp_file)
           IN  /\ console' = console \o
                      (IF done.raised
                       THEN <<"Error processing " \o game_id \o ": "
                                 \o done.printed[1]>>
                       ELSE done.printed
                                \o <<"Successfully processed " \o game_id>>)
               /\ windows_dir' = IF done.written
                                 THEN SetKey(windows_dir, game_id, done.lines)
                                 ELSE windows_dir
    /\ game_i' = game_i + 1
    /\ UNCHANGED <<schedule, sft_vars, clock_vars, window_vars, teacher_vars>>

NextPipeline == RunPipelineForGame

SpecPipeline == InitPipeline /\ [][NextPipeline]_vars

(***************************************************************************)
(* Analyzer-failure harness: label_window is handed one window, some of    *)
(* whose comments may be ones the analyzer raises on.                      *)
(***************************************************************************)
FailingComment == [body |-> "the analyzer fails on this", score |-> 4]

InitAnalyzerFailure ==
    /\ win \in [comments : SeqsUpTo(CommentPool \cup {FailingComment},
                                    MaxWinComments),
                pbp : SeqsUpTo(EventPool, MaxFailureEvents)]
    /\ summary = NotCalled /\ event = NotCalled /\ fan_sentiment = NotCalled
    /\ timeline = NotCalled
    /\ ClockIdle /\ WindowIdle /\ BatchIdle

SpecAnalyzerFailure == InitAnalyzerFailure /\ [][NextTeacher]_vars

(***************************************************************************)
(* Busy-window harness: label_window is handed a window of up to           *)
(* MaxBusyComments comments and no events, enough for the trimmed mean to  *)
(* trim more than one score from each end.                                 *)
(***************************************************************************)
BusyPool ==
    << [body |-> "lets go!!", score |-> 10],
       [body |-> "refs are awful", score |-> 3],
       [body |-> "ok", score |-> 0],
       [body |-> "what a game", score |-> 5],
       [body |-> "this comment body is far longer than forty characters",
        score |-> 20],
       [body |-> "   ", score |-> 9],
       [body |-> "aa bb cc dd ee ff gg hh", score |-> 7] >>

\* The list of n comments that goes through BusyPool from entry first on,
\* stride entries at a time.
BusyComments(n, stride, first) ==
    [i \in 1..n |-> BusyPool[((i * stride + first) % Len(BusyPool)) + 1]]

InitBusyWindow ==
    /\ \E n \in 0..MaxBusyComments, stride \in 0..(Len(BusyPool) - 1),
          first \in 0..(Len(BusyPool) - 1) :
           win = [comments |-> BusyComments(n, stride, first), pbp |-> << >>]
    /\ summary = NotCalled /\ event = NotCalled /\ fan_sentiment = NotCalled
    /\ timeline = NotCalled
    /\ ClockIdle /\ WindowIdle /\ BatchIdle

SpecBusyWindow == InitBusyWindow /\ [][NextTeacher]_vars

(***************************************************************************)
(* Shot harness: label_window is handed a window of up to MaxShotEvents    *)
(* events whose descriptions name several shot types, or none.             *)
(***************************************************************************)
ShotDescs ==
    { "Layup blocked, Dunk on the rebound after the Free Throw and a 3PT",
      "Dunk off the missed Free Throw",
      "Layup and a Dunk",
      "Layup Made",
      "free throw made",
      "" }

ShotEventPool ==
    [team : {"TeamA", "TeamB"}, points : {0, 2, 9}, desc : ShotDescs]

InitShots ==
    /\ win \in [comments : {<< >>, <<[body |-> "what a game", score |-> 5]>>},
                pbp : SeqsUpTo(ShotEventPool, MaxShotEvents)]
    /\ summary = NotCalled /\ event = NotCalled /\ fan_sentiment = NotCalled
    /\ timeline = NotCalled
    /\ ClockIdle /\ WindowIdle /\ BatchIdle

SpecShots == InitShots /\ [][NextTeacher]_vars

(***************************************************************************)
(* Quote harness: label_window is handed a window of up to                 *)
(* MaxQuoteComments comments and no events; some bodies are over the       *)
(* limits of add_fan_quotes before their cleaning only, some after it too. *)
(***************************************************************************)
QuotePool ==
    { [body |-> "what a shot!!!!!!!!!!!!!!!!!!!!!!!!!!!!!!", score |-> 10],
      [body |-> "!!!", score |-> 9],
      [body |-> "lets go!!", score |-> 8],
      [body |-> "aa bb cc dd ee ff gg hh ii", score |-> 7],
      [body |-> "this comment body is far longer than forty characters",
       score |-> 20],
      [body |-> "ok", score |-> 0] }

InitQuotes ==
    /\ win \in [comments : SeqsUpTo(QuotePool, MaxQuoteComments),
                pbp : {<< >>}]
    /\ summary = NotCalled /\ event = NotCalled /\ fan_sentiment = NotCalled
    /\ timeline = NotCalled
    /\ ClockIdle /\ WindowIdle /\ BatchIdle

SpecQuotes == InitQuotes /\ [][NextTeacher]_vars

(***************************************************************************)
(* Training-data harness: make_sft.main is run on a windows directory that *)
(* holds the files of up to MaxGames games.  A file is what the pipeline   *)
(* wrote for a game, whole or cut short in the middle of a line, or one    *)
(* whose window has no period.                                             *)
(***************************************************************************)
SftComment(after_start, body, score) ==
    [created_utc |-> GameStart + after_start, body |-> body, score |-> score]

SftCommentPool ==
    { SftComment(5, "lets go!!", 10),
      SftComment(65, "refs are awful", 3),
      SftComment(130, FailingComment.body, FailingComment.score) }

\* Five comments of one window: two of them are left to random.shuffle.
BusyWindowComments ==
    << SftComment(1, "lets go!!", 10), SftComment(2, "what a game", 5),
       SftComment(3, "ok", 0), SftComment(4, "refs are awful", 3),
       SftComment(5, "aa bb cc dd ee ff gg hh", 7) >>

SftCommentLists ==
    SeqsUpTo(SftCommentPool, MaxGameComments) \cup {BusyWindowComments}

SftEventLists ==
    { << >>,
      << [period |-> 1, clock |-> "08:40", team |-> "TeamA", points |-> 2,
          desc |-> "Layup Made"] >> }

\* The lines run_pipeline_for_game writes for a game.
WindowsLines(comments_, events) ==
    JsonLines(save_windows_to_jsonl(
        build_windows(add_elapsed_times(comments_, GameStart),
                      add_elapsed_times_pbp(events, GameStart), 60), 60))

WindowsFiles ==
    { WindowsLines(cs, es) : cs \in SftCommentLists, es \in SftEventLists }
        \cup { <<MalformedLine>>,
               WindowsLines(<<SftComment(5, "lets go!!", 10)>>, << >>)
                   \o <<MalformedLine>>,
               <<JsonLine([comments |-> <<SftComment(5, "lets go!!", 10)>>,
                           pbp |-> << >>])>> }

WindowsDirs ==
    {NoDir} \cup
    UNION {[games -> WindowsFiles] :
               games \in SUBSET {mini_games[i] : i \in 1..MaxGames}}

InitSft ==
    /\ windows_dir \in WindowsDirs
    /\ sft_game_id \in {None} \cup {mini_games[i] : i \in 1..MaxGames}
    /\ game_files = << >> /\ sft_i = 0 /\ all_pairs = << >>
    /\ out = NoFile /\ sft_pc = "start"
    /\ console = << >>
    /\ schedule = << >> /\ game_i = 0
    /\ ClockIdle /\ WindowIdle /\ TeacherIdle

\* main up to its loop: lines 97-116.
SftStart ==
    /\ sft_pc = "start"
    /\ IF ~DirExists(windows_dir)
       THEN /\ console' = Append(console,
                              "Error: Windows directory data/windows not found")
            /\ sft_pc' = "returned 1"
            /\ UNCHANGED game_files
       ELSE IF sft_game_id # None
       THEN IF sft_game_id \notin DOMAIN windows_dir
            THEN /\ console' = Append(console,
                        "Error: Game file " \o GameFile(sft_game_id)
                            \o " not found")
                 /\ sft_pc' = "returned 1"
                 /\ UNCHANGED game_files
            ELSE /\ game_files' = <<sft_game_id>>
                 /\ sft_pc' = "loop"
                 /\ UNCHANGED console
       ELSE /\ game_files' \in Glob(windows_dir)
            /\ console' = Append(console,
                   "Found " \o ToString(Len(game_files')) \o " game files")
            /\ sft_pc' = "loop"
    /\ UNCHANGED <<windows_dir, sft_game_id, sft_i, all_pairs, out,
                   pipeline_vars, clock_vars, window_vars, teacher_vars>>

\* process_game_file on the next game file and all_pairs.extend(pairs):
\* lines 111-112 for the one game of args.game_id, lines 118-121 in the
\* loop.  No try is around it, an exception ends main.
ProcessGameFile ==
    /\ sft_pc = "loop"
    /\ sft_i < Len(game_files)
    /\ LET game_id == game_files[sft_i + 1]
           lines == windows_dir[game_id]
           windows_ == load_jsonl(lines)
       IN  IF load_jsonl_raises(lines)
           THEN /\ console' = console \o <<"Processing " \o GameFile(game_id),
                                           "JSONDecodeError">>
                /\ sft_pc' = "raised"
                /\ UNCHANGED <<sft_i, all_pairs>>
           ELSE IF create_sft_pairs_raises(windows_)
           THEN /\ console' = console \o
                       <<"Processing " \o GameFile(game_id),
                         "Loaded " \o ToString(Len(windows_)) \o " windows",
                         "KeyError">>
                /\ sft_pc' = "raised"
                /\ UNCHANGED <<sft_i, all_pairs>>
           ELSE \E pairs \in create_sft_pairs(windows_, game_id) :
                    /\ all_pairs' = all_pairs \o pairs
                    /\ console' = console \o
                           process_game_file_prints(game_id, windows_, pairs)
                    /\ sft_i' = sft_i + 1
                    /\ UNCHANGED sft_pc
    /\ UNCHANGED <<windows_dir, sft_game_id, game_files, out,
                   pipeline_vars, clock_vars, window_vars, teacher_vars>>

\* main after its loop, lines 123-149: the pairs are written, then the
\* sentiment distribution divides by len(all_pairs).
SaveAllPairs ==
    /\ sft_pc = "loop"
    /\ sft_i = Len(game_files)
    /\ out' = File(JsonLines(all_pairs))
    /\ IF all_pairs = << >>
       THEN /\ console' = console \o <<"Created 0 total SFT training pairs",
                                       "ZeroDivisionError">>
            /\ sft_pc' = "raised"
       ELSE /\ console' = Append(console,
                   "Created " \o ToString(Len(all_pairs))
                       \o " total SFT training pairs")
            /\ sft_pc' = "done"
    /\ UNCHANGED <<windows_dir, sft_game_id, game_files, sft_i, all_pairs,
                   pipeline_vars, clock_vars, window_vars, teacher_vars>>

NextSft == SftStart \/ ProcessGameFile \/ SaveAllPairs

SpecSft == InitSft /\ [][NextSft]_vars

(***************************************************************************)
(* Claims about the clock mapper.                                          *)
(***************************************************************************)
Delta == comment_ts - game_start_ts
ClockCalled == clock # NotCalled

\* The two digits of n (0 <= n <= 99), read off a digit table.
TwoDigits(n) ==
    SubSeq("0123456789", (n \div 10) + 1, (n \div 10) + 1)
        \o SubSeq("0123456789", (n % 10) + 1, (n % 10) + 1)

\* The label the claim C1 gives for a delta >= 0.
C1_Label(d) ==
    LET p == (d \div 720) + 1
        lab == IF p <= 4 THEN "Q" \o ToString(p) ELSE "OT" \o ToString(p - 4)
    IN  lab \o " " \o TwoDigits(11 - ((d % 720) \div 60))
            \o ":" \o TwoDigits(59 - ((d % 720) % 60))

\* C1: for every delta >= 0 utc_to_game_clock returns "<label> MM:SS" with
\* period = delta div 720 + 1, label Q<period> up to 4 and OT<period-4>
\* above, MM = 11 - (delta mod 720) div 60, SS = 59 - (delta mod 720) mod 60,
\* both two digits; delta = 0 gives "Q1 11:59", delta = 750 gives "Q2 11:29".
C1_ClockLabel ==
    (ClockCalled /\ Delta >= 0) =>
        /\ clock = C1_Label(Delta)
        /\ (Delta = 0 => clock = "Q1 11:59")
        /\ (Delta = 750 => clock = "Q2 11:29")

\* An overtime label with a zero-padded minute has been returned.
C1_Witness == ClockCalled /\ Delta = 3000 /\ clock = "OT1 09:59"

\* The countdown a label shows, as seconds: the label's last five
\* characters are MM:SS.
DigitVal(c) ==
    CASE c = "0" -> 0 [] c = "1" -> 1 [] c = "2" -> 2 [] c = "3" -> 3
      [] c = "4" -> 4 [] c = "5" -> 5 [] c = "6" -> 6 [] c = "7" -> 7
      [] c = "8" -> 8 [] c = "9" -> 9
Countdown(label) ==
    LET n == Len(label)
        ch(i) == SubSeq(label, i, i)
    IN  (DigitVal(ch(n - 4)) * 10 + DigitVal(ch(n - 3))) * 60
            + DigitVal(ch(n - 1)) * 10 + DigitVal(ch(n))

\* C2: of two deltas d1 < d2, both >= 0 and in the same period, the later
\* one gets the strictly smaller countdown (minutes, seconds).
C2_CountdownDecreases ==
    (ClockCalled /\ Delta >= 0) =>
        LET later == Countdown(clock)
        IN  \A d1 \in (Delta - (Delta % 720))..(Delta - 1) :
                Countdown(utc_to_game_clock(game_start_ts + d1, game_start_ts))
                    > later

\* The mapper has answered for the last second of a period, which every
\* other second of that period precedes.
C2_Witness == ClockCalled /\ Delta = 1439 /\ clock = "Q2 00:00"

MapCalled == mapped # NotCalled

\* C15 as stated: for every delta < 0 the clock mapper utc_to_game_clock
\* returns the real-time bin label keyed by max(0, delta div 60), formatted
\* "MM:00-MM:59" with an en dash.
C15_PreGameBin ==
    (ClockCalled /\ Delta < 0) =>
        LET mm == IF Delta \div 60 > 0 THEN Delta \div 60 ELSE 0
        IN  clock = TwoDigits(mm) \o ":00" \o EnDash \o TwoDigits(mm) \o ":59"

\* C15 as amended: for every delta < 0, map_real_to_game returns the
\* real-time bin label keyed by max(0, delta div 60), which is bin 0,
\* "00:00-00:59" with an en dash, under the period label "REAL";
\* utc_to_game_clock returns None.
C15_PreGameBinOfMapRealToGame ==
    Delta < 0 =>
        /\ MapCalled =>
               LET mm == IF Delta \div 60 > 0 THEN Delta \div 60 ELSE 0
               IN  /\ mapped[1] = "REAL"
                   /\ mapped[2] = TwoDigits(mm) \o ":00" \o EnDash
                                      \o TwoDigits(mm) \o ":59"
                   /\ mapped[2] = "00:00" \o EnDash \o "00:59"
        /\ ClockCalled => clock = None

\* Both mappers have answered for a timestamp more than a minute before
\* the start.
C15_Witness ==
    /\ Delta = -61 /\ ClockCalled /\ clock = None
    /\ MapCalled /\ mapped = <<"REAL", "00:00~00:59">>

\* C21: the two routines that produce a clock label apply one formula: for
\* every delta >= 0, map_real_to_game and utc_to_game_clock give the same
\* period label and the same countdown clock for the same instant.
C21_OneClockFormula ==
    (ClockCalled /\ MapCalled /\ Delta >= 0) =>
        clock = mapped[1] \o " " \o mapped[2]

\* C27: map_real_to_game maps a timestamp 720 seconds after the configured
\* start, with the default 720-second periods, to the quarter label "Q1"
\* and the clock "11:00".
C27_TwelveMinutesIn ==
    (MapCalled /\ Delta = 720) => mapped = <<"Q1", "11:00">>

\* C29: for every delta >= 0 that map_real_to_game treats as in-game
\* (delta div q_seconds <= 5) the period label is Q1, Q2, Q3 or Q4 in the
\* first four periods and starts with "OT" in the later ones, and the clock
\* lies between 00:00 and 12:00.
C29_InGameLabel ==
    (MapCalled /\ Delta >= 0 /\ Delta \div q_seconds <= 5) =>
        LET q == Delta \div q_seconds
            label == mapped[1]
            clock_ == mapped[2]
        IN  /\ q < 4 => label = "Q" \o SubSeq("1234", q + 1, q + 1)
            /\ q >= 4 => Len(label) >= 2 /\ SubSeq(label, 1, 2) = "OT"
            /\ Len(clock_) = 5 /\ SubSeq(clock_, 3, 3) = ":"
            /\ Countdown(clock_) >= 0 /\ Countdown(clock_) <= 720

(***************************************************************************)
(* Claims about the window builder.                                        *)
(***************************************************************************)
Built == Len(builds) >= 1

\* How often the record at input position id occurs in a window's list.
Occurrences(members, id) ==
    Cardinality({j \in 1..Len(members) : members[j].id = id})

\* Every record of the input list recs that has an elapsed value occurs
\* once in the list (comments or pbp) of the window keyed elapsed div
\* win_len, that window exists, and it occurs in no other window.
PlacedOnce(recs, field) ==
    \A i \in 1..Len(recs) :
        recs[i].has_elapsed =>
            /\ \E j \in 1..Len(windows) :
                   windows[j].key = recs[i].elapsed \div win_len
            /\ \A j \in 1..Len(windows) :
                   Occurrences(windows[j][field], i) =
                       IF windows[j].key = recs[i].elapsed \div win_len
                       THEN 1 ELSE 0

\* C3: build_windows puts every record that has an elapsed value e in
\* exactly the window of index e div win_len and in no other; no two
\* windows share an index; every window has at least one member; comments
\* with elapsed 5, 65, 125 and win_len 60 give windows 0, 1, 2 holding one
\* comment each.
C3_WindowMembership ==
    Built =>
        /\ PlacedOnce(comments, "comments")
        /\ PlacedOnce(pbp_events, "pbp")
        /\ \A j, k \in 1..Len(windows) :
               j # k => windows[j].key # windows[k].key
        /\ \A j \in 1..Len(windows) :
               Len(windows[j].comments) + Len(windows[j].pbp) >= 1
        /\ ( /\ win_len = 60 /\ pbp_events = << >> /\ Len(comments) = 3
             /\ \A i \in 1..3 : comments[i].has_elapsed
             /\ <<comments[1].elapsed, comments[2].elapsed, comments[3].elapsed>>
                    = <<5, 65, 125>> )
           => /\ {windows[j].key : j \in 1..Len(windows)} = {0, 1, 2}
              /\ Len(windows) = 3
              /\ \A j \in 1..3 : Len(windows[j].comments) = 1

\* The windows of Scenario C have been built.
C3_Witness ==
    /\ Built /\ win_len = 60 /\ pbp_events = << >> /\ Len(comments) = 3
    /\ \A i \in 1..3 : comments[i].has_elapsed /\ comments[i].elapsed = 60 * i - 55
    /\ Len(windows) = 3

InNoWindow(field, id) ==
    \A j \in 1..Len(windows) : Occurrences(windows[j][field], id) = 0

\* The members of all the windows' lists, counted.
RECURSIVE MembersFrom(_, _)
MembersFrom(field, j) ==
    IF j > Len(windows) THEN 0
    ELSE Len(windows[j][field]) + MembersFrom(field, j + 1)

\* Of the list recs, the records without an elapsed value are in no window
\* and all the others are in theirs: nothing else is in the windows.
SkippedOnlyMissing(recs, field) ==
    /\ \A i \in 1..Len(recs) :
           IF recs[i].has_elapsed
           THEN \E j \in 1..Len(windows) :
                    /\ windows[j].key = recs[i].elapsed \div win_len
                    /\ Occurrences(windows[j][field], i) = 1
           ELSE InNoWindow(field, i)
    /\ MembersFrom(field, 1)
           = Cardinality({i \in 1..Len(recs) : recs[i].has_elapsed})

\* C18: when a comment or an event lacks an elapsed value, build_windows
\* still returns, the record is in no window, and every other record of
\* the batch is in its window.
C18_MissingElapsedSkipped ==
    ( /\ \E i \in 1..Len(comments) : ~comments[i].has_elapsed
      /\ Len(builds) >= 1 )
    \/ ( /\ \E i \in 1..Len(pbp_events) : ~pbp_events[i].has_elapsed
         /\ Len(builds) >= 1 )
    => /\ windows = builds[Len(builds)]
       /\ SkippedOnlyMissing(comments, "comments")
       /\ SkippedOnlyMissing(pbp_events, "pbp")

\* A comment without elapsed stood between two comments that have it, an
\* event without elapsed before one that has it; the others were placed.
C18_Witness ==
    /\ Built /\ Len(comments) = 3 /\ Len(pbp_events) = 2
    /\ comments[1].has_elapsed /\ ~comments[2].has_elapsed
    /\ comments[3].has_elapsed
    /\ ~pbp_events[1].has_elapsed /\ pbp_events[2].has_elapsed
    /\ MembersFrom("comments", 1) = 2 /\ MembersFrom("pbp", 1) = 1

\* C13: for every window index w >= 0 and window length L, the timestamp
\* label label_window renders from create_window_summary(w, ., L)'s period
\* and clock_start equals utc_to_game_clock's label for delta = w * L.
C13_SummaryLabelIsClockLabel ==
    (timeline # NotCalled /\ "period" \in DOMAIN win) =>
        /\ Len(timeline) = 1
        /\ timeline[1].ts =
               utc_to_game_clock(game_start_ts + win_id * win_len, game_start_ts)

\* The window that starts 3015 seconds in, in the first overtime, has
\* been summarised and labelled.
C13_Witness ==
    /\ timeline # NotCalled /\ win_id = 67 /\ win_len = 45
    /\ "period" \in DOMAIN win
    /\ win.period = 5 /\ win.clock_start = "09:44"
    /\ timeline[1].ts = "OT1 09:44"

\* The records of a window's list stand in the order of their positions
\* in the input list.
InInputOrder(members) ==
    \A a, b \in 1..Len(members) : a < b => members[a].id < members[b].id

\* C22: inside every window the comments are in the order in which they
\* occur in the input comment list and the events in the order in which
\* they occur in the input event list; build_windows does not re-sort.
C22_InputOrderKept ==
    Built =>
        \A j \in 1..Len(windows) :
            /\ InInputOrder(windows[j].comments)
            /\ InInputOrder(windows[j].pbp)

\* C22 witness: a window holds two comments and two events whose elapsed
\* values fall from the first to the second, in input order.
C22_Witness ==
    /\ Built
    /\ \E j \in 1..Len(windows) :
           /\ Len(windows[j].comments) = 2
           /\ windows[j].comments[1].elapsed > windows[j].comments[2].elapsed
           /\ windows[j].comments[1].id < windows[j].comments[2].id
           /\ Len(windows[j].pbp) = 2
           /\ windows[j].pbp[1].elapsed > windows[j].pbp[2].elapsed

\* The timestamp label of the window of index w: create_window_summary,
\* then label_window.
LabelOfWindow(w) ==
    label_window(create_window_summary(
        w, [comments |-> win.comments, pbp |-> win.pbp], win_len))[1].ts

\* C30: for a fixed window length, two windows with different indices
\* never get the same timestamp label "<period label> <clock_start>" from
\* create_window_summary followed by label_window.
C30_LabelInjective ==
    (timeline # NotCalled /\ "period" \in DOMAIN win) =>
        /\ timeline[1].ts = LabelOfWindow(win_id)
        /\ \A other \in 0..MaxWinId :
               other # win_id => LabelOfWindow(other) # timeline[1].ts

\* C30 witness: window 60 of length 60 got the label of the second
\* overtime, window 48 has the same clock in the first overtime.
C30_Witness ==
    /\ timeline # NotCalled /\ "period" \in DOMAIN win
    /\ win_id = 60 /\ win_len = 60
    /\ timeline[1].ts = "OT2 11:59"
    /\ LabelOfWindow(48) = "OT1 11:59"

(***************************************************************************)
(* Claims about the event summarizer.                                      *)
(***************************************************************************)
Labelled == event # NotCalled

\* The teams named by the events, and the points a team's events sum to.
TeamsOf(pbp) == {pbp[i].team : i \in 1..Len(pbp)} \ {""}
PointsOf(pbp, team) ==
    SumSeq([i \in 1..Len(pbp) |->
               IF pbp[i].team = team THEN pbp[i].points ELSE 0], 1)

\* The teams with a qualifying scoring run: event points summing to >= 8.
QualifyingTeams(pbp) == {t \in TeamsOf(pbp) : PointsOf(pbp, t) >= 8}

\* Some event scores.
HasScoringEvent(pbp) == \E i \in 1..Len(pbp) : pbp[i].points > 0

\* Some event description holds a highlight keyword, in any case.
HasHighlightKeyword(pbp) ==
    \E i \in 1..Len(pbp) :
        \E kw \in {"block", "dunk", "steal", "alley-oop", "behind-the-back",
                   "no-look"} :
            Contains(kw, Lower(pbp[i].desc))

\* The three descriptions of section 4.4.
RunText(team, p) ==
    team \o " " \o ToString(p) \o "-0 run as star scores " \o ToString(p)
        \o " straight."
IsRunDescription(s, pbp) ==
    \E t \in QualifyingTeams(pbp) : s = RunText(t, PointsOf(pbp, t))
IsLeadDescription(s, pbp) ==
    \E i \in 1..Len(pbp) :
        \E shot \in {"three-pointer", "free throw", "dunk", "layup", "shot"} :
            /\ pbp[i].points > 0
            /\ s = pbp[i].team \o " retake the lead on player " \o shot \o "."
IsHighlightDescription(s) ==
    \E kw \in {"block", "dunk", "steal", "alley-oop", "behind-the-back",
               "no-look"} :
        s = "player emphatic " \o kw \o " fires up fans."

\* C5 as stated: the description comes from the first matching detector in
\* the order scoring run, lead change, highlight; a window with a team
\* whose event points sum to >= 8 and with a highlight keyword gets the
\* scoring-run description, never the highlight description.
C5_RunBeatsHighlight ==
    (Labelled /\ QualifyingTeams(win.pbp) # {} /\ HasHighlightKeyword(win.pbp))
        => /\ IsRunDescription(summary, win.pbp)
           /\ ~IsHighlightDescription(summary)

\* C5 as amended: the scoring-run detector looks only at windows of at
\* least two events.  The description comes from the first detector that
\* matches in the order scoring run (two or more events, a team's points
\* summing to >= 8), lead change (a scoring event), highlight (a keyword);
\* a window with a qualifying run and a highlight keyword never gets the
\* highlight description, and gets the scoring-run description when it has
\* at least two events.
C5_DetectorPriority ==
    Labelled =>
        LET pbp == win.pbp
            run == Len(pbp) >= 2 /\ QualifyingTeams(pbp) # {}
            lead == HasScoringEvent(pbp)
            highlight == HasHighlightKeyword(pbp)
        IN  /\ run => IsRunDescription(summary, pbp)
            /\ (~run /\ lead) => IsLeadDescription(summary, pbp)
            /\ (~run /\ ~lead /\ highlight) => IsHighlightDescription(summary)
            /\ (~run /\ ~lead /\ ~highlight) =>
                   /\ ~IsRunDescription(summary, pbp)
                   /\ ~IsLeadDescription(summary, pbp)
                   /\ ~IsHighlightDescription(summary)
            /\ (QualifyingTeams(pbp) # {} /\ highlight) =>
                   /\ ~IsHighlightDescription(summary)
                   /\ Len(pbp) >= 2 => IsRunDescription(summary, pbp)

\* A window of two events with a qualifying run and a highlight keyword has
\* got the scoring-run description.
C5_Witness ==
    /\ Labelled /\ Len(win.pbp) = 2
    /\ QualifyingTeams(win.pbp) # {} /\ HasHighlightKeyword(win.pbp)
    /\ IsRunDescription(summary, win.pbp)

\* The text s begins with prefix.
StartsWith(s, prefix) ==
    Len(prefix) <= Len(s) /\ SubSeq(s, 1, Len(prefix)) = prefix

\* C6 as stated: whenever a team's event points sum to P >= 8, whatever the
\* number of events, the description begins "{team} P-0 run as star scores
\* P straight." with that team and that sum.
C6_RunDescriptionForEveryTeam ==
    Labelled =>
        \A t \in QualifyingTeams(win.pbp) :
            StartsWith(event, RunText(t, PointsOf(win.pbp, t)))

\* The position of a team's first scoring event.
FirstScoreAt(pbp, team) ==
    CHOOSE i \in 1..Len(pbp) :
        /\ pbp[i].team = team /\ pbp[i].points > 0
        /\ \A j \in 1..(i - 1) : ~(pbp[j].team = team /\ pbp[j].points > 0)

\* C6 as amended: whenever a window has at least two events and some team's
\* event points sum to >= 8, the description begins "{team} P-0 run as star
\* scores P straight." for the first such team, in the order in which the
\* teams first score in the window, and its sum P.
C6_RunDescription ==
    (Labelled /\ Len(win.pbp) >= 2 /\ QualifyingTeams(win.pbp) # {}) =>
        LET pbp == win.pbp
            t == CHOOSE q \in QualifyingTeams(pbp) :
                     \A r \in QualifyingTeams(pbp) :
                         FirstScoreAt(pbp, q) <= FirstScoreAt(pbp, r)
        IN  /\ summary = RunText(t, PointsOf(pbp, t))
            /\ StartsWith(event, RunText(t, PointsOf(pbp, t)))

\* Scenario E: two TeamA events summing to 8, a highlight keyword, and a
\* fan quote after the run description.
C6_Witness ==
    /\ Labelled /\ Len(win.pbp) = 2 /\ PointsOf(win.pbp, "TeamA") = 8
    /\ HasHighlightKeyword(win.pbp)
    /\ StartsWith(event, "TeamA 8-0 run as star scores 8 straight. \"")

\* C7: every description write_event returns has at most 28
\* whitespace-delimited tokens, fan quotes included.
C7_TokenBound == Labelled => Len(Split(event)) <= 28

\* The description with its quotes had more than 28 tokens and was cut.
C7_Witness ==
    /\ Labelled
    /\ Len(Split(add_fan_quotes(summary, win.comments, 2))) > 28
    /\ Len(Split(event)) = 28

\* C8: the Event Summarizer never returns an empty or absent description,
\* whichever branch produced it.
C8_NeverEmpty ==
    Labelled =>
        /\ summary # None /\ Len(summary) > 0
        /\ event # None /\ Len(event) > 0

\* The last event has an empty description and no detector matched: the
\* terminal default was returned.
C8_Witness ==
    /\ Labelled /\ win.pbp # << >> /\ win.pbp[Len(win.pbp)].desc = ""
    /\ summary = "Game action continues."

\* The first shot type, in the order three-pointer, free throw, dunk,
\* layup, whose pattern the description holds; "shot" when it holds none.
ShotPatterns ==
    << <<"3PT", "three-pointer">>, <<"Free Throw", "free throw">>,
       <<"Dunk", "dunk">>, <<"Layup", "layup">> >>
ClaimedShotType(desc) ==
    LET matching == {k \in 1..Len(ShotPatterns) :
                         Contains(ShotPatterns[k][1], desc)}
    IN  IF matching = {} THEN "shot"
        ELSE ShotPatterns[CHOOSE k \in matching :
                              \A other \in matching : k <= other][2]

\* C24: when no scoring run is detected and some event of the window has
\* points > 0, the description is "{team} retake the lead on player
\* {shot_type}." with the team and the shot type of the first event, in
\* window order, that has points > 0.
C24_LeadChangeDescription ==
    ( /\ Labelled
      /\ ~(Len(win.pbp) >= 2 /\ QualifyingTeams(win.pbp) # {})
      /\ HasScoringEvent(win.pbp) ) =>
        LET pbp == win.pbp
            first == CHOOSE i \in 1..Len(pbp) :
                         /\ pbp[i].points > 0
                         /\ \A j \in 1..(i - 1) : pbp[j].points <= 0
        IN  summary = pbp[first].team \o " retake the lead on player "
                          \o ClaimedShotType(pbp[first].desc) \o "."

\* C24 witness: the second event is the first that scores, its description
\* names all four shot types, and the window got the three-pointer text.
C24_Witness ==
    /\ Labelled /\ Len(win.pbp) = 2
    /\ win.pbp[1].points = 0 /\ win.pbp[1].team = "TeamA"
    /\ win.pbp[2].points = 2 /\ win.pbp[2].team = "TeamB"
    /\ Contains("Layup", win.pbp[2].desc) /\ Contains("3PT", win.pbp[2].desc)
    /\ summary = "TeamB retake the lead on player three-pointer."

\* No detector matches: no scoring run, no scoring event, no highlight
\* keyword.
NoDetectorMatches(pbp) ==
    /\ ~(Len(pbp) >= 2 /\ QualifyingTeams(pbp) # {})
    /\ ~HasScoringEvent(pbp)
    /\ ~HasHighlightKeyword(pbp)

\* A description, capitalized, cut to its first 20 words and an ellipsis
\* when it has more than 20 words.
CapitalizedAndCut(desc) ==
    LET words == Split(Capitalize(desc))
    IN  IF Len(words) > 20
        THEN Join(SubSeq(words, 1, 20)) \o "..."
        ELSE Capitalize(desc)

\* C25 as stated: when no detector matches and the window has at least one
\* event, the description is the last event's description, capitalized and
\* cut to 20 words and an ellipsis; when the window has no events it is
\* "Game action continues.".
C25_FallbackForEveryLastEvent ==
    (Labelled /\ NoDetectorMatches(win.pbp)) =>
        IF win.pbp # << >>
        THEN summary = CapitalizedAndCut(win.pbp[Len(win.pbp)].desc)
        ELSE summary = "Game action continues."

\* C25 as amended: when no detector matches, the description is the last
\* event's description, capitalized and cut to 20 words and an ellipsis,
\* if the window has an event and the last event's description is not
\* empty; it is "Game action continues." if the window has no events or the
\* last event's description is empty.
C25_Fallback ==
    (Labelled /\ NoDetectorMatches(win.pbp)) =>
        IF win.pbp # << >> /\ win.pbp[Len(win.pbp)].desc # ""
        THEN summary = CapitalizedAndCut(win.pbp[Len(win.pbp)].desc)
        ELSE summary = "Game action continues."

\* C25 witness: no detector matched a window of two events whose last
\* description has more than 20 words, and the description is its first
\* 20 words and an ellipsis.
C25_Witness ==
    /\ Labelled /\ Len(win.pbp) = 2 /\ NoDetectorMatches(win.pbp)
    /\ win.pbp[1].desc = "missed jumper" /\ win.pbp[2].desc = LongDesc
    /\ summary = "Jump ball won by the home side and then a long pass up the court to the man in the..."

\* The place of the i-th comment in descending score order, comments of
\* equal score staying in their order.
ScoreRank(cs, i) ==
    Cardinality({j \in 1..Len(cs) : cs[j].score > cs[i].score})
        + Cardinality({j \in 1..i : cs[j].score = cs[i].score})

\* The cleaned text of a comment is a quote within the limits: not empty,
\* at most 40 characters, at most 8 words.
QuotableCleaned(c) ==
    LET cleaned == CleanQuote(c.body)
    IN  cleaned # "" /\ Len(cleaned) <= 40 /\ Len(Split(cleaned)) <= 8

\* The comments the claim C26 has quoted: the first two quotable ones in
\* descending score order.
ClaimedQuoted(cs) ==
    LET quotable == {i \in 1..Len(cs) : QuotableCleaned(cs[i])}
    IN  {i \in quotable :
             Cardinality({j \in quotable : ScoreRank(cs, j) < ScoreRank(cs, i)})
                 < 2}

RECURSIVE QuotesText(_, _)
\* The quotes of the comments at the positions, in descending score order.
QuotesText(cs, positions) ==
    IF positions = {} THEN ""
    ELSE LET i == CHOOSE k \in positions :
                      \A other \in positions :
                          ScoreRank(cs, k) <= ScoreRank(cs, other)
         IN  " \"" \o CleanQuote(cs[i].body) \o "\""
                 \o QuotesText(cs, positions \ {i})

\* C26: the quotes appended to a description are at most 2 and are exactly
\* the first comments, in descending score order, whose cleaned text has at
\* most 40 characters and at most 8 words: a comment within both limits
\* after cleaning is never passed over for a lower-scored one.
C26_QuotesByCleanedText ==
    Labelled =>
        /\ Cardinality(ClaimedQuoted(win.comments)) <= 2
        /\ event = summary \o QuotesText(win.comments, ClaimedQuoted(win.comments))

(***************************************************************************)
(* Claims about the sentiment aggregator.                                  *)
(***************************************************************************)
\* C9: the sentiment label of a window is one of pos, neg, mixed and never
\* absent, whatever the comments.
C9_SentimentLabel == Labelled => fan_sentiment \in {"pos", "neg", "mixed"}

\* A window with a blank comment and scored comments has got a label.
C9_Witness ==
    /\ Labelled /\ Len(win.comments) = 3
    /\ \E i \in 1..3 : Strip(win.comments[i].body) = ""
    /\ fan_sentiment = "neg"

\* C10: comments that all score > 0.25 aggregate to pos, comments that all
\* score < -0.25 aggregate to neg, no comments aggregate to mixed.
C10_UnanimousSentiment ==
    Labelled =>
        LET cs == win.comments
            score(i) == polarity_compound(cs[i].body)
        IN  /\ (cs # << >> /\ \A i \in 1..Len(cs) : score(i) > 2500)
                   => fan_sentiment = "pos"
            /\ (cs # << >> /\ \A i \in 1..Len(cs) : score(i) < -2500)
                   => fan_sentiment = "neg"
            /\ cs = << >> => fan_sentiment = "mixed"

\* Three comments with different scores, all > 0.25, of which the trimmed
\* mean keeps one, have aggregated to pos.
C10_Witness ==
    /\ Labelled /\ Len(win.comments) = 3
    /\ {polarity_compound(win.comments[i].body) : i \in 1..3}
           = {5000, 5500, 6000}
    /\ fan_sentiment = "pos"

\* The comments of the window the analyzer does not raise on.
ScoredComments ==
    LET scored(c) == ~polarity_raises(c.body) IN SelectSeq(win.comments, scored)

\* C19: when the analyzer fails on one comment of the window, the label is
\* the one computed from the remaining comments: only that comment's score
\* is left out and the aggregation does not abort.
C19_FailedCommentLeftOut ==
    ( /\ event # NotCalled
      /\ Len(ScoredComments) = Len(win.comments) - 1 )
        => /\ fan_sentiment # Raised
           /\ fan_sentiment = trimmed_mean_sentiment(ScoredComments)

\* The scores of the window's comments with a body that is not blank.
WindowScores == BodyScoresFrom(win.comments, 1)

\* The place of the i-th score once the scores are sorted by absolute
\* magnitude, equal magnitudes staying in their order.
AbsRank(scores, i) ==
    Cardinality({j \in 1..Len(scores) : Abs(scores[j]) < Abs(scores[i])})
        + Cardinality({j \in 1..i : Abs(scores[j]) = Abs(scores[i])})

RECURSIVE SumOver(_, _)
\* The sum of the scores at the positions of the set.
SumOver(scores, positions) ==
    IF positions = {} THEN 0
    ELSE LET i == CHOOSE k \in positions : TRUE
         IN  scores[i] + SumOver(scores, positions \ {i})

\* The label of a mean, given as a sum of count scores: > 0.25 is pos,
\* < -0.25 is neg, else mixed.
LabelOfMean(sum, count) ==
    IF sum > 2500 * count THEN "pos"
    ELSE IF sum < -2500 * count THEN "neg"
    ELSE "mixed"

\* The positions that remain of n sorted scores: all when n <= 2t, else
\* those after the first t and before the last t, t = max(1, n div 10).
Remaining(scores) ==
    LET n == Len(scores)
        t == IF n \div 10 > 1 THEN n \div 10 ELSE 1
    IN  IF n > 2 * t
        THEN {i \in 1..n : AbsRank(scores, i) > t /\ AbsRank(scores, i) <= n - t}
        ELSE 1..n

\* C23: the window's sentiment is the label (> 0.25 pos, < -0.25 neg, else
\* mixed) of the mean of the scores that remain after sorting the n scores
\* by absolute magnitude and removing t = max(1, n div 10) from each end
\* when n > 2t, of all n scores otherwise; the remaining list is never
\* empty; the scores 0.50, 0.60, 0.55 leave 0.55 and give pos.
C23_TrimmedMean ==
    (Labelled /\ WindowScores # << >>) =>
        LET scores == WindowScores
            kept == Remaining(scores)
        IN  /\ kept # {}
            /\ fan_sentiment = LabelOfMean(SumOver(scores, kept),
                                           Cardinality(kept))
            /\ scores = <<5000, 6000, 5500>> =>
                   /\ {scores[i] : i \in kept} = {5500}
                   /\ fan_sentiment = "pos"

\* C23 witness: a window of more than twenty scored comments, two trimmed
\* from each end, got a label other than that of the mean of all scores.
C23_Witness ==
    /\ Labelled /\ Len(WindowScores) >= 20
    /\ Cardinality(Remaining(WindowScores)) = Len(WindowScores) - 4
    /\ fan_sentiment # LabelOfMean(SumSeq(WindowScores, 1), Len(WindowScores))

(***************************************************************************)
(* Claims about the alignment pipeline.                                    *)
(***************************************************************************)
\* The window summaries written for a game, and their comments and events.
Summaries(game_id) ==
    [n \in 1..Len(windows_dir[game_id]) |-> windows_dir[game_id][n].value]

RECURSIVE MembersOfFrom(_, _, _)
MembersOfFrom(summaries, field, n) ==
    IF n > Len(summaries) THEN << >>
    ELSE summaries[n][field] \o MembersOfFrom(summaries, field, n + 1)

WrittenComments(game_id) == MembersOfFrom(Summaries(game_id), "comments", 1)
WrittenEvents(game_id) == MembersOfFrom(Summaries(game_id), "pbp", 1)

\* C14: the score_before and score_after of every window are the
\* cumulative per-team point totals of the game's events, in elapsed
\* order: those before the window starts and those up to its end.
PointsUntil(events, team, limit) ==
    SumSeq([i \in 1..Len(events) |->
               IF events[i].team = team /\ events[i].elapsed < limit
               THEN events[i].points ELSE 0], 1)
ScoreTexts(events, limit) ==
    LET a == PointsUntil(events, "TeamA", limit)
        b == PointsUntil(events, "TeamB", limit)
    IN  {ToString(a) \o "-" \o ToString(b), ToString(b) \o "-" \o ToString(a)}
C14_RunningScore ==
    \A game_id \in DOMAIN windows_dir :
        \A n \in 1..Len(Summaries(game_id)) :
            LET w == Summaries(game_id)[n]
                events == WrittenEvents(game_id)
            IN  /\ w.score_before \in ScoreTexts(events, w.win_id * 60)
                /\ w.score_after \in ScoreTexts(events, (w.win_id + 1) * 60)

\* The text "MM:SS" of a countdown of c seconds; Countdown reads the
\* seconds back off such a text.
ClockText(c) == TwoDigits(c \div 60) \o ":" \o TwoDigits(c % 60)

\* C16: every event of period p >= 1 and countdown clock of c seconds gets
\* elapsed (p - 1) * 720 + (720 - c), whatever p; for its clock value the
\* elapsed is strictly increasing in p.
C16_EventElapsed ==
    \A game_id \in DOMAIN windows_dir :
        \A i \in 1..Len(WrittenEvents(game_id)) :
            LET e == WrittenEvents(game_id)[i]
                c == Countdown(e.clock)
            IN  /\ c \in 0..720 /\ e.clock = ClockText(c)
                /\ e.period >= 1
                /\ e.elapsed = (e.period - 1) * 720 + (720 - c)
                /\ \A p \in 1..MaxPeriod :
                       /\ pbp_elapsed([e EXCEPT !.period = p])
                              = (p - 1) * 720 + (720 - c)
                       /\ pbp_elapsed([e EXCEPT !.period = p + 1])
                              > pbp_elapsed([e EXCEPT !.period = p])

\* A game's file holds a first-period event and a second-overtime event
\* of the same clock value.
C16_Witness ==
    \E game_id \in DOMAIN windows_dir :
        \E i, j \in 1..Len(WrittenEvents(game_id)) :
            LET e1 == WrittenEvents(game_id)[i]
                e2 == WrittenEvents(game_id)[j]
            IN  /\ e1.clock = "10:55" /\ e1.period = 1 /\ e1.elapsed = 65
                /\ e2.clock = "10:55" /\ e2.period = 6 /\ e2.elapsed = 3665

\* C17: the elapsed of every comment is a non-negative integer, equal to
\* max(0, created_utc - game start): 0 for a comment created before the
\* start.
C17_CommentElapsed ==
    \A game_id \in DOMAIN windows_dir :
        \A i \in 1..Len(WrittenComments(game_id)) :
            LET c == WrittenComments(game_id)[i]
                delta == c.created_utc - schedule[game_id]
            IN  /\ c.elapsed \in Nat
                /\ c.elapsed = IF delta > 0 THEN delta ELSE 0
                /\ delta < 0 => c.elapsed = 0

\* A game's file holds a comment made 30 seconds before the start, with
\* elapsed 0, and one made 65 seconds after it.
C17_Witness ==
    \E game_id \in DOMAIN windows_dir :
        \E i, j \in 1..Len(WrittenComments(game_id)) :
            /\ WrittenComments(game_id)[i].created_utc = schedule[game_id] - 30
            /\ WrittenComments(game_id)[i].elapsed = 0
            /\ WrittenComments(game_id)[j].elapsed = 65

\* C28: every event with period p and a countdown clock between 00:00
\* and 12:00 is written into a window (window length 60) whose display
\* period is p: the clock's way to elapsed and back to a period does not
\* move an event into another period.
C28_EventKeepsItsPeriod ==
    \A game_id \in DOMAIN windows_dir :
        \A n \in 1..Len(Summaries(game_id)) :
            LET w == Summaries(game_id)[n]
            IN  \A i \in 1..Len(w.pbp) :
                    Countdown(w.pbp[i].clock) \in 0..720 =>
                        w.period = w.pbp[i].period

(***************************************************************************)
(* Claims: training-data batch (make_sft)                                  *)
(***************************************************************************)
RECURSIVE CountOf(_, _, _)
\* How many entries of seq[i..] are the entry x.
CountOf(seq, x, i) ==
    IF i > Len(seq) THEN 0
    ELSE (IF seq[i] = x THEN 1 ELSE 0) + CountOf(seq, x, i + 1)

\* C11: the Teacher Assembler never silently drops a window: whenever
\* process_game_file has gone through a game's file, every window of the
\* file has yielded one pair (one timeline entry) or an error was printed
\* for it.
C11_NoWindowSilentlyDropped ==
    [][(sft_pc = "loop" /\ sft_i' = sft_i + 1) =>
          (Len(all_pairs') - Len(all_pairs))
              + (CountOf(console', WindowError, 1)
                     - CountOf(console, WindowError, 1))
            = Len(load_jsonl(windows_dir[game_files[sft_i']]))]_vars

\* The windows of a game's file in ascending win_id, without those that
\* yield no pair.
EmittingWindows(game_id) ==
    LET ws == load_jsonl(windows_dir[game_id])
        ids == SortedFrom({ws[i].win_id : i \in 1..Len(ws)})
        ascending == [n \in 1..Len(ids) |->
                         ws[CHOOSE i \in 1..Len(ws) : ws[i].win_id = ids[n]]]
        emits(w) == sft_pairs_of_window(w, game_id) # {<< >>}
        emitting == SelectSeq(ascending, emits)
    IN  [n \in 1..Len(emitting) |-> [game_id |-> game_id, window |-> emitting[n]]]

RECURSIVE EmissionFrom(_)
\* Game after game from game_files[i] on, each game's windows together.
EmissionFrom(i) ==
    IF i > Len(game_files) THEN << >>
    ELSE EmittingWindows(game_files[i]) \o EmissionFrom(i + 1)

\* The win_id of the lines of a file that hold one.
WinIdsOf(lines) ==
    LET has_id(l) == l.kind = "json" /\ "win_id" \in DOMAIN l.value
        with_id == SelectSeq(lines, has_id)
    IN  [n \in 1..Len(with_id) |-> with_id[n].value.win_id]

\* C12: a game's windows file lists its windows in ascending win_id, and
\* the pairs make_sft writes are those of the first game file in ascending
\* win_id, then those of the next, each game's pairs together.
C12_AscendingAndGrouped ==
    /\ DirExists(windows_dir) =>
           \A g \in DOMAIN windows_dir :
               LET ids == WinIdsOf(windows_dir[g])
               IN  \A m, n \in 1..Len(ids) : m < n => ids[m] < ids[n]
    /\ out.exists =>
           LET emission == EmissionFrom(1)
           IN  /\ Len(out.lines) = Len(emission)
               /\ \A k \in 1..Len(out.lines) :
                      <<out.lines[k].value>> \in
                          sft_pairs_of_window(emission[k].window,
                                              emission[k].game_id)

\* C12 witness: the pairs of two games were written, two windows of each.
C12_Witness ==
    /\ sft_pc = "done"
    /\ Len(game_files) = 2
    /\ \A i \in 1..2 : Len(EmittingWindows(game_files[i])) = 2
    /\ Len(out.lines) = 4

\* A game whose file make_sft cannot load or read its windows from.
FailsToLoad(g) ==
    \/ load_jsonl_raises(windows_dir[g])
    \/ create_sft_pairs_raises(load_jsonl(windows_dir[g]))

\* C20: in a batch over several games a failure to load one game's file
\* is confined to that game: once main has ended, every other game has
\* been processed and its pairs have been written.
C20_FailureConfined ==
    (sft_pc \in {"done", "raised"} /\ sft_game_id = None) =>
        \A g \in DOMAIN windows_dir :
            ~FailsToLoad(g) =>
                /\ CountOf(console, "Processing " \o GameFile(g), 1) = 1
                /\ out.exists

====
